---- MODULE Spec2Model ----
(***************************************************************************)
(* unologger: the asynchronous logging pipeline.                           *)
(*                                                                         *)
(* Producers call Logger.log, which filters by minimum severity and hands  *)
(* a pooled entry to Logger.enqueue; batching workers (workerLoop) receive *)
(* from the ingestion channel, group entries into batches and run          *)
(* processBatch, which hands every entry to the hook subsystem and to      *)
(* writeToAll; CloseDetached/closeLogger shut the logger down.             *)
(***************************************************************************)
EXTENDS Integers, Sequences, FiniteSets, TLC

(* ---------------------------------------------------------------------- *)
(* Severity levels (Level iota constants).                                *)
(* ---------------------------------------------------------------------- *)
DEBUG == 0
INFO == 1
WARN == 2
ERROR == 3
FATAL == 4
Levels == DEBUG..FATAL

(* ---------------------------------------------------------------------- *)
(* Bounds of the model.                                                   *)
(* ---------------------------------------------------------------------- *)
\* number of log calls made (each may take one entry from the pool)
MaxRec == 3
\* largest capacity of the ingestion channel (Config.Buffer)
MaxBuf == 2
\* largest published batch size (BatchConfig.Size)
MaxBatch == 2
\* number of log calls made under the liveness specification
MaxLive == 2

\* largest capacity of the hook-failure ring checked (the constructor sets
\* defaultHookErrMax; the ring logic is exercised on small capacities)
MaxRing == 2
\* largest RetryPolicy.MaxRetries
MaxRetry == 2
\* number of events dispatched to the hook list
MaxEv == 2
\* number of reconfigurations of the sink set before the shutdown
MaxConf == 2
\* number of writeToAll calls made beside the reconfigurations
MaxWrites == 1
\* largest maximum wait a batching configuration carries, in timer units
MaxWait == 2
\* ReinitGlobalLogger calls each caller makes
MaxReinit == 2
\* length of the messages given to the masking stage, in tokens
MaxMsg == 4

Recs == 1..MaxRec
NoRec == 0

defaultHookErrMax == 1000
\* time.Second, in timer units
Second == 1000

\* goroutines of the embedding program and of the logger
Producers == {"p1", "p2"}
Workers == {"w1", "w2"}
\* every caller makes one Close/CloseDetached call
Closers == {"c1", "c2", "c3"}

\* goroutines that execute runHooks: batching workers in synchronous mode
Runners == {"r1", "r2"}
\* the hook functions a configuration can register
HookFns == {"h1", "h2"}
NoHook == "none"
HookLists == {<<>>, <<"h1">>, <<"h2">>, <<"h1", "h2">>}
\* failure values: a hook's own error, ErrHookTimeout, ErrHookPanic, ErrHookQueueFull
ErrHook == "err"
ErrHookTimeout == "timeout"
ErrHookPanic == "panic"
ErrHookQueueFull == "full"

\* the writers a configuration can install
SinkOut == "out"
SinkErr == "err"
SinkRot == "rot"
SinkExtra == "x1"
NoSink == "none"
\* a writer handed to SetOutputs or AddExtraWriter, and the writer a
\* SetRotation call creates
SinkAdded == "x2"
SinkRot2 == "rot2"
Sinks == {SinkOut, SinkErr, SinkRot, SinkExtra, SinkAdded, SinkRot2}
\* the keys of l.writerErrs: "stdout" and "stderr" for the primaries, the
\* sink's name otherwise
StdoutName == "stdout"
StderrName == "stderr"
SinkNames == {StdoutName, StderrName} \cup Sinks

VARIABLES
  \* Logger fields: dynamic configuration
  minLevel,       \* l.minLevel (atomic)
  dynMinLevel,    \* l.dynConfig.MinLevel
  batchSizeA,     \* l.batchSizeA (atomic)
  \* Logger fields: pipeline
  nonBlocking,    \* l.nonBlocking
  dropOldest,     \* l.dropOldest
  bufCap,         \* cap(l.ch)
  nworkers,       \* l.workers
  closed,         \* l.closed (atomic flag)
  chClosed,       \* number of close(l.ch) executed (the channel is closed iff > 0)
  queue,          \* content of l.ch, oldest first
  \* Logger fields: statistics
  droppedCount,
  writtenCount,
  batchCount,
  \* Logger fields: outputs
  stdOut,
  errOut,
  rotationSink,   \* a sink or NoSink
  extraW,         \* sequence of sinks
  sinkLog,        \* per sink, the entries written to it, in order
  sinkClosed,     \* per sink, how often its Close was invoked
  \* Logger fields: hooks
  hookAsync,      \* l.hookAsync
  hookQueue,      \* l.hookQueue, the capacity of the hook queue
  hasHooks,       \* len(l.hooks) > 0
  hookCh,         \* l.hookQueueCh: "nil", "open" or "closed"
  hookQ,          \* content of l.hookQueueCh
  hookAlive,      \* hook runner goroutines that have not exited
  hookErrCount,
  hookRuns,       \* per entry, how often the hook chain ran on its event
  \* producer goroutines (Logger.log / Logger.enqueue)
  ppc,            \* position of each producer
  pcur,           \* the entry the producer's call holds
  \* pooled entries
  nextRec,        \* the next entry poolEntry.Get hands out
  lvl,            \* entry.lvl
  ins,            \* per entry, how often it was sent on l.ch
  enqOrder,       \* ghost: the entries enqueue sent on l.ch or dropped as new, in order
  callDrops,      \* ghost, per entry: droppedCount increments made during its enqueue call
  callTook,       \* ghost, per entry: entries its enqueue call received from l.ch
  selfDrop,       \* per entry, droppedCount increments made by its own enqueue call
  evicted,        \* per entry, droppedCount increments made when it was evicted as the oldest
  recycled,       \* per entry, how often recycleEntry returned it to the pool
  refs,           \* per entry, its reference-holding fields that are set
  handed,         \* per entry, how often it was handed to writeToAll
  procOrder,      \* ghost: the entries processBatch took up, in order
  startClosed,    \* per entry, whether l.closed was set when its log call began
  encDone,        \* per entry, whether its enqueue call has returned
  \* worker goroutines (workerLoop)
  wpc,            \* "off", "loop", "flush" or "exit"
  batch,          \* batch.items of each worker
  bpos,           \* index of the next entry processBatch handles
  wret,           \* which branch of the loop called flush last: "size", "timer", "final"
                  \* (or "finalEmpty" when the final flush found the batch empty)
  \* Close / CloseDetached callers and the waiter goroutine of closeLogger
  cpc,            \* "idle", "try", "closeCh", "wait" or "ret"
  ctimeout,       \* whether the caller's call has timeout > 0
  cres,           \* result of the caller's call: "none", "ok" or "timeout"
  cvia,           \* how the call returned: "none", "early", "done" or "timer"
  cafterOk,       \* whether the call began after some call had returned success
  waiterPc,       \* "off", "wgWait", "hookClose", "hookWait", "writers", "signal" or "end"
  done,           \* the done channel of closeLogger is closed
  hookCloseRuns,  \* how often closeHookRunner closed the hook queue
  writersCloseRuns, \* how often closeAllWriters ran
  initSinks,      \* the sink set at construction
  traceOrder,     \* whether the ghosts enqOrder, procOrder, callDrops and callTook are kept
  \* SetMinLevel caller
  cfgpc,          \* "idle", "store" or "ret"
  cfgArg,         \* argument of the SetMinLevel call
  \* log calls
  calls,          \* number of log calls made
  lastCall,       \* producer, level and outcome of the last log call
  \* hook dispatch (runHooks) on each runner
  hooks,          \* l.hooks, the registered hook list
  hookTimeoutOn,  \* l.hookTimeout > 0
  hookWorkers,    \* l.hookWorkers
  rpc,            \* "idle", "call", "launched", "parked", "sawDone", "sawTimeout", "rec"
  rev,            \* the event of the runner's runHooks call
  rsnap,          \* the snapshot snapshotHooks returned
  ridx,           \* index of the hook the range loop is at
  rtimer,         \* the context of the current invocation has expired
  hgs,            \* the goroutine running the hook: "none", "running" or "done"
  herr,           \* the err variable the goroutine assigned: "ok" or "err"
  rerr,           \* the failure a recordHookError call in progress is recording
  abandoned,      \* invocations left running after their timeout
  crashed,        \* an unrecovered panic has ended the process
  evCount,        \* events handed to runHooks so far
  calledOn,       \* per event, the hooks invoked with it, in order
  hooksAtBegin,   \* per event, the registered list when its dispatch began
  dispatched,     \* per event, whether its runHooks call has returned
  panicked,       \* invocations <<event, hook>> that raised a panic
  timerFirst,     \* per runner: the hook had not completed when the timer fired
  doneFirst,      \* per runner: the hook completed before the timer fired
  \* hook-failure ring (recordHookError)
  hookErrMax,     \* l.hookErrMax
  hookErrLog,     \* l.hookErrLog
  hookErrHist     \* every failure record appended so far, in order

cfgVars == <<nonBlocking, dropOldest, bufCap, nworkers, hookAsync, hookQueue, hasHooks, initSinks,
             traceOrder>>
lvlVars == <<minLevel, dynMinLevel, cfgpc, cfgArg>>
chanVars == <<closed, chClosed, queue>>
statVars == <<droppedCount, writtenCount, batchCount>>
outVars == <<stdOut, errOut, rotationSink, extraW, sinkLog, sinkClosed>>
hookVars == <<hookCh, hookQ, hookAlive, hookErrCount, hookRuns>>
prodVars == <<ppc, pcur, calls, lastCall>>
recVars == <<nextRec, lvl, ins, enqOrder, callDrops, callTook, selfDrop, evicted, recycled, refs, handed, procOrder,
             startClosed, encDone>>
workVars == <<wpc, batch, bpos, wret, batchSizeA>>
closeVars == <<cpc, ctimeout, cres, cvia, cafterOk, waiterPc, done, hookCloseRuns,
               writersCloseRuns>>

VARIABLES
  \* the writer stage
  retryMax,       \* l.retryPolicy.MaxRetries
  writeErrCount,  \* l.writeErrCount
  writerErrs,     \* l.writerErrs: per-name error counters
  swpc,           \* the worker inside writeToAll: "idle", "begin", "try" or "inc"
  swTargets,      \* writeToAll: the writers still to be written, from its snapshot
  swNames,        \* writeToAll: their names
  swMax,          \* safeWrite: maxRetries, from the policy snapshot, clamped
  swAttempt,      \* safeWrite: the loop variable attempt
  \* ghosts of the writer stage
  swRead,         \* MaxRetries of the policy as safeWrite read it
  swCalls,        \* calls of w.Write made by the current safeWrite
  swOk,           \* the last w.Write of the current safeWrite succeeded
  wcalls,         \* writeToAll calls made
  nconf,          \* reconfigurations of the sink set made
  installed       \* the sinks that have been in the sink set

sinkVars == <<retryMax, writeErrCount, writerErrs, swpc, swTargets, swNames, swMax, swAttempt,
              swRead, swCalls, swOk, wcalls, nconf, installed>>

VARIABLES
  \* batching configuration and the flush timer of each worker
  dynBatch,       \* l.dynConfig.Batch: <<Size, MaxWait>>
  batchWaitA,     \* l.batchWaitA (atomic)
  wwait,          \* per worker, its local variable wait
  armed,          \* per worker, the duration its timer was last armed with
  timer,          \* per worker, its time.Timer: run (it is running), sig (what timer.C
                  \* holds: "none", "fresh" or "stale") and drained (ghost: signals drained)
  sbpc,           \* the SetBatchConfig caller: "idle" or "wait"
  sbCalls,        \* SetBatchConfig calls that have returned
  flushConf       \* per worker, sbCalls when its flush began (-1 during a call)

timerVars == <<dynBatch, batchWaitA, wwait, armed, timer, sbpc, sbCalls, flushConf>>

\* the variables the pipeline, hook and sink actions above the batching
\* configuration leave alone
VARIABLES
  \* the package-level global instance and ReinitGlobalLogger callers
  globalLogger,   \* the logger the package variable globalLogger points to
  started,        \* the loggers whose workers were started
  closeBegun,     \* the loggers closeLogger was called on
  gpc,            \* per caller: "idle", "new", "swap" or "close"
  gold,           \* per caller, its local variable old
  gnew,           \* per caller, its local variable newL
  gcalls          \* per caller, the ReinitGlobalLogger calls it has made

globalVars == <<globalLogger, started, closeBegun, gpc, gold, gnew, gcalls>>

VARIABLES
  \* the masking stage applied to one message
  regexRules,     \* l.dynConfig.RegexRules
  jsonFieldRules, \* l.dynConfig.JSONFieldRules
  jsonMode,       \* l.jsonFmtFlag
  msgIn,          \* the message given to applyMasking
  msgOnce,        \* applyMasking(msgIn)
  msgTwice,       \* applyMasking(applyMasking(msgIn))
  mpc             \* "idle", "in", "once" or "twice"

maskVars == <<regexRules, jsonFieldRules, jsonMode, msgIn, msgOnce, msgTwice, mpc>>

VARIABLES
  errCalls        \* the goroutines inside incWriterErr: pc, name, seen (the value
                  \* their Load found), calls made, and the ghosts raced (the
                  \* LoadOrStore calls that found a counter) and done[n] (the
                  \* calls of name n that returned)

VARIABLES
  fmtCalls        \* the goroutines around the format mode: wpc and mode (the worker
                  \* between its read of jsonFmtFlag and its read of l.formatter,
                  \* and the flag it read), spc and arg (the callers inside
                  \* SetJSONFormat), n (calls made), and the ghosts done (entries
                  \* formatted) and used (the flag and the formatter of the last one)

countVars == <<errCalls, fmtCalls>>

\* state the actions of the pipeline, the hooks and the sinks never touch
sideVars == <<globalVars, maskVars, countVars>>

VARIABLES
  formatter,      \* l.formatter: "TextFormatter", "JSONFormatter" or "nil"
  fmtErrCount     \* ghost: writeErrCount increments made for formatter errors

fmtVars == <<formatter, fmtErrCount>>

auxVars == <<timerVars, sideVars, fmtVars>>

dispatchVars == <<hooks, hookTimeoutOn, hookWorkers, rpc, rev, rsnap, ridx, rtimer, hgs, herr,
                  rerr, abandoned, crashed, evCount, calledOn, hooksAtBegin, dispatched,
                  panicked, timerFirst, doneFirst>>
ringVars == <<hookErrMax, hookErrLog, hookErrHist>>

vars == <<cfgVars, auxVars, lvlVars, chanVars, statVars, outVars, hookVars, prodVars, recVars,
          workVars, closeVars, dispatchVars, ringVars, sinkVars, sinkVars>>

\* the state of the logger a shutdown call can change (queue, counters, sinks)
loggerState == <<chanVars, statVars, outVars, hookVars>>

(* ---------------------------------------------------------------------- *)
(* Construction: newLoggerFromConfig + startWorkers + startHookRunner.     *)
(* ---------------------------------------------------------------------- *)
Inc(f, x) == [f EXCEPT ![x] = @ + 1]

\* the reference-holding fields of a logEntry the log call leaves set:
\* "entry.ctx = ctx; entry.tmpl = format; entry.args = args", and the fields
\* the context API attaches
FilledFields == {"ctx", "args", "tmpl", "fields"}

\* an entry put back into the pool as it is
PutUncleared(fs) == fs

\* "e.ctx = nil; e.args = nil; e.tmpl = \"\"; e.fields = nil"
ClearedFields(fs) == fs \ {"ctx", "args", "tmpl", "fields"}

\* recycleEntry(e): the fields are cleared and "poolEntry.Put(e)"
RecycleEntry(e) ==
  /\ recycled' = Inc(recycled, e)
  /\ refs' = [refs EXCEPT ![e] = ClearedFields(@)]

\* the clamp of newLoggerFromConfig and workerLoop on the batch size
ClampMin1(n) == IF n <= 0 THEN 1 ELSE n

\* The logger built from one configuration: mode = <<nonBlocking, dropOldest>>,
\* hk = <<Hook.Async, len(Hooks) > 0>>, active = the worker goroutines started.
InitPipeline(modes, bufs, batches, actives, hks, errOuts, rots, extras, mins) ==
  /\ \E m \in modes : nonBlocking = m[1] /\ dropOldest = m[2]
  /\ \E b \in bufs : bufCap = b
  /\ \E b \in batches : batchSizeA = ClampMin1(b)
  /\ \E a \in actives :
        /\ nworkers = Cardinality(a)
        /\ wpc = [w \in Workers |-> IF w \in a THEN "loop" ELSE "off"]
  /\ \E h \in hks :
        /\ hookAsync = h[1]
        /\ hasHooks = h[2]
        /\ hooks = IF h[2] THEN <<"h1">> ELSE <<>>
        /\ hookQueue = 1
        /\ hookWorkers = IF Len(h) >= 3 THEN h[3] ELSE 1
        \* startHookRunner: only when async and the hook list is not empty
        /\ hookCh = IF h[1] /\ h[2] THEN "open" ELSE "nil"
        /\ hookAlive = IF h[1] /\ h[2] THEN hookWorkers ELSE 0
  /\ stdOut = SinkOut
  /\ errOut \in errOuts
  /\ rotationSink \in rots
  /\ extraW \in extras
  /\ initSinks = [std |-> stdOut, err |-> errOut, rot |-> rotationSink, extras |-> extraW]
  /\ minLevel \in mins
  /\ dynMinLevel = minLevel
  /\ closed = FALSE
  /\ chClosed = 0
  /\ queue = <<>>
  /\ droppedCount = 0
  /\ writtenCount = 0
  /\ batchCount = 0
  /\ sinkLog = [s \in Sinks |-> <<>>]
  /\ sinkClosed = [s \in Sinks |-> 0]
  /\ hookQ = <<>>
  /\ hookErrCount = 0
  /\ hookRuns = [r \in Recs |-> 0]
  /\ ppc = [p \in Producers |-> "idle"]
  /\ pcur = [p \in Producers |-> NoRec]
  /\ nextRec = 1
  /\ lvl = [r \in Recs |-> DEBUG]
  /\ ins = [r \in Recs |-> 0]
  /\ enqOrder = <<>>
  /\ callDrops = [r \in Recs |-> 0]
  /\ callTook = [r \in Recs |-> 0]
  /\ selfDrop = [r \in Recs |-> 0]
  /\ evicted = [r \in Recs |-> 0]
  /\ recycled = [r \in Recs |-> 0]
  /\ refs = [r \in Recs |-> {}]
  /\ handed = [r \in Recs |-> 0]
  /\ procOrder = <<>>
  /\ startClosed = [r \in Recs |-> FALSE]
  /\ encDone = [r \in Recs |-> FALSE]
  /\ batch = [w \in Workers |-> <<>>]
  /\ bpos = [w \in Workers |-> 1]
  /\ wret = [w \in Workers |-> "none"]
  /\ cpc = [c \in Closers |-> "idle"]
  /\ ctimeout = [c \in Closers |-> FALSE]
  /\ cres = [c \in Closers |-> "none"]
  /\ cvia = [c \in Closers |-> "none"]
  /\ cafterOk = [c \in Closers |-> FALSE]
  /\ waiterPc = "off"
  /\ done = FALSE
  /\ hookCloseRuns = 0
  /\ writersCloseRuns = 0
  /\ cfgpc = "idle"
  /\ cfgArg = DEBUG
  /\ calls = 0
  /\ lastCall = [p |-> "none", lvl |-> DEBUG, passed |-> FALSE]

\* no runHooks call is in progress and nothing was dispatched
InitDispatch(timeouts) ==
  /\ hookTimeoutOn \in timeouts
  /\ rpc = [r \in Runners |-> "idle"]
  /\ rev = [r \in Runners |-> NoRec]
  /\ rsnap = [r \in Runners |-> <<>>]
  /\ ridx = [r \in Runners |-> 1]
  /\ rtimer = [r \in Runners |-> FALSE]
  /\ hgs = [r \in Runners |-> "none"]
  /\ herr = [r \in Runners |-> "ok"]
  /\ rerr = [r \in Runners |-> [ev |-> NoRec, hk |-> NoHook, err |-> "ok"]]
  /\ abandoned = {}
  /\ crashed = FALSE
  /\ evCount = 0
  /\ calledOn = [e \in Recs |-> <<>>]
  /\ hooksAtBegin = [e \in Recs |-> <<>>]
  /\ dispatched = [e \in Recs |-> FALSE]
  /\ panicked = {}
  /\ timerFirst = [r \in Runners |-> FALSE]
  /\ doneFirst = [r \in Runners |-> FALSE]

\* the empty hook-failure ring with capacity field cap
InitRing(caps) ==
  /\ hookErrMax \in caps
  /\ hookErrLog = <<>>
  /\ hookErrHist = <<>>

\* the goroutines that report a failed write of a sink to incWriterErr
Incrementers == {"i1", "i2", "i3"}

\* no goroutine inside incWriterErr, none returned
NoErrCalls == [pc    |-> [g \in Incrementers |-> "idle"],
               name  |-> [g \in Incrementers |-> StdoutName],
               seen  |-> [g \in Incrementers |-> 0],
               calls |-> [g \in Incrementers |-> 0],
               raced |-> 0,
               done  |-> [n \in SinkNames |-> 0]]

\* the writer stage at construction: retry policy from the configuration, no
\* error counted, the worker outside writeToAll
InitWriter(retries) ==
  /\ retryMax \in retries
  /\ errCalls = NoErrCalls
  /\ writeErrCount = 0
  /\ writerErrs = [n \in SinkNames |-> 0]
  /\ swpc = "idle"
  /\ swTargets = <<>>
  /\ swNames = <<>>
  /\ swMax = 0
  /\ swAttempt = 0
  /\ swRead = 0
  /\ swCalls = 0
  /\ swOk = FALSE
  /\ wcalls = 0
  /\ nconf = 0
  /\ installed = {stdOut, errOut} \cup {extraW[i] : i \in 1..Len(extraW)}
                 \cup (IF rotationSink # NoSink THEN {rotationSink} ELSE {})

\* "if wait <= 0 { wait = time.Second }"
ClampWait(d) == IF d <= 0 THEN Second ELSE d

\* "time.NewTimer(wait)": running, nothing in timer.C
NewTimer == [run |-> TRUE, sig |-> "none", drained |-> 0]

\* the batching configuration at construction, and the timer each worker
\* creates when it starts: "wait := l.batchWaitA.Load(); ...; time.NewTimer(wait)"
InitTimer(waits) ==
  /\ \E d \in waits : batchWaitA = ClampWait(d)
  /\ dynBatch = <<batchSizeA, batchWaitA>>
  /\ wwait = [w \in Workers |-> ClampWait(batchWaitA)]
  /\ armed = [w \in Workers |-> ClampWait(batchWaitA)]
  /\ timer = [w \in Workers |-> NewTimer]
  /\ sbpc = "idle"
  /\ sbCalls = 0
  /\ flushConf = [w \in Workers |-> 0]

\* the callers of ReinitGlobalLogger and the loggers they can create
Reiniters == {"a", "b"}
FirstLogger == 0
Loggers == 0..(MaxReinit * Cardinality(Reiniters))
NoLogger == -1

\* the global instance after ensureInit: one started logger, no reinit call
InitGlobal ==
  /\ globalLogger = FirstLogger
  /\ started = {FirstLogger}
  /\ closeBegun = {}
  /\ gpc = [c \in Reiniters |-> "idle"]
  /\ gold = [c \in Reiniters |-> NoLogger]
  /\ gnew = [c \in Reiniters |-> NoLogger]
  /\ gcalls = [c \in Reiniters |-> 0]

\* the goroutines that call SetJSONFormat
Setters == {"s1", "s2"}

\* the worker outside the loop body of processBatch, no SetJSONFormat begun
NoFmtCalls == [wpc  |-> "idle",
               mode |-> FALSE,
               spc  |-> [c \in Setters |-> "idle"],
               arg  |-> [c \in Setters |-> FALSE],
               n    |-> 0,
               done |-> 0,
               used |-> <<>>]

\* the formatter newLoggerFromConfig (or the struct literal of InitLogger)
\* leaves in l.formatter
InitFormatter(fs) ==
  /\ formatter \in fs
  /\ fmtCalls = NoFmtCalls
  /\ fmtErrCount = 0

\* the masking rules and format mode of the configuration, and the message
\* applyMasking is called with
InitMask(msgs, regexes, fields, modes) ==
  /\ msgIn \in msgs
  /\ regexRules \in regexes
  /\ jsonFieldRules \in fields
  /\ jsonMode \in modes
  /\ msgOnce = <<>>
  /\ msgTwice = <<>>
  /\ mpc = IF msgs = {<<>>} THEN "idle" ELSE "in"

\* what the specifications that do not observe them start with: no order
\* ghosts, the default maximum wait, the global instance untouched, the
\* line formatter, no masking rules
InitDefaults ==
  /\ traceOrder = FALSE
  /\ InitTimer({Second})
  /\ InitGlobal
  /\ InitFormatter({"TextFormatter"})
  /\ InitMask({<<>>}, {<<>>}, {<<>>}, {FALSE})

InitWith(modes, bufs, batches, actives, hks, errOuts, rots, extras, mins) ==
  /\ InitPipeline(modes, bufs, batches, actives, hks, errOuts, rots, extras, mins)
  /\ InitDispatch({FALSE})
  /\ InitRing({defaultHookErrMax})
  /\ InitWriter({0})
  /\ InitDefaults

Blocking == <<FALSE, FALSE>>
NonBlockingDropNew == <<TRUE, FALSE>>
NonBlockingDropOldest == <<TRUE, TRUE>>
AllModes == {Blocking, NonBlockingDropNew, NonBlockingDropOldest}

(* ---------------------------------------------------------------------- *)
(* Logger.log: severity filter, then poolEntry.Get and enqueue.           *)
(* ---------------------------------------------------------------------- *)
\* a filter that also rejects the minimum severity itself
FilteredInclusive(lv, min) == lv <= min

\* the filter of Logger.log: "if level < Level(l.minLevel.Load()) { return }"
Filtered(lv, min) == lv < min

Log(p, lv) ==
  /\ ppc[p] = "idle"
  /\ calls < MaxRec
  /\ calls' = calls + 1
  /\ IF Filtered(lv, minLevel)
     THEN /\ lastCall' = [p |-> p, lvl |-> lv, passed |-> FALSE]
          /\ UNCHANGED <<ppc, pcur, recVars>>
     ELSE /\ lastCall' = [p |-> p, lvl |-> lv, passed |-> TRUE]
          /\ nextRec' = nextRec + 1
          /\ lvl' = [lvl EXCEPT ![nextRec] = lv]
          /\ startClosed' = [startClosed EXCEPT ![nextRec] = closed]
          /\ pcur' = [pcur EXCEPT ![p] = nextRec]
          /\ ppc' = [ppc EXCEPT ![p] = "enq"]
          /\ refs' = [refs EXCEPT ![nextRec] = FilledFields]
          /\ UNCHANGED <<ins, enqOrder, callDrops, callTook, selfDrop, evicted, recycled, handed, procOrder, encDone>>
  /\ UNCHANGED <<cfgVars, auxVars, dispatchVars, ringVars, sinkVars, lvlVars, chanVars, statVars, outVars, hookVars, workVars, closeVars>>

(* ---------------------------------------------------------------------- *)
(* Logger.enqueue.                                                        *)
(* ---------------------------------------------------------------------- *)
\* the enqueue call of producer p returns
EnqReturn(p) ==
  /\ ppc' = [ppc EXCEPT ![p] = "idle"]
  /\ pcur' = [pcur EXCEPT ![p] = NoRec]
  /\ encDone' = [encDone EXCEPT ![pcur[p]] = TRUE]

\* a drop-new branch that forgets to count the dropped entry
DroppedNotCounted(d) == d

\* "l.droppedCount.Add(1)" for the new entry (the three drop-new branches)
DroppedAfterDropNew(d) == d + 1

\* an eviction that forgets to count the evicted entry
EvictNotCounted(d) == d

\* "l.droppedCount.Add(1)" for the evicted oldest entry
DroppedAfterEvict(d) == d + 1

\* a full queue handled as in drop-new mode whatever the policy says
DropOldestIgnored(flag) == FALSE

\* "if l.dropOldest": on a full queue the drop-oldest branch is taken
DropOldestBranch(flag) == flag

\* the per-call ghost c after the call holding entry r changed a counter by n
CallCounts(c, r, n) == IF traceOrder THEN [c EXCEPT ![r] = @ + n] ELSE c

\* the entries sent on l.ch, in the order of the sends
insOrder == SelectSeq(enqOrder, LAMBDA r : ins[r] >= 1)

\* what the closed flag check at the top of enqueue sees
SeesClosed(flag) == flag

\* "case l.ch <- e": the entry is in the channel
SendOk(p) ==
  /\ queue' = Append(queue, pcur[p])
  /\ ins' = Inc(ins, pcur[p])
  /\ enqOrder' = IF traceOrder THEN Append(enqOrder, pcur[p]) ELSE enqOrder
  /\ EnqReturn(p)
  /\ UNCHANGED <<closed, chClosed, statVars, callDrops, callTook, selfDrop, evicted, recycled, refs>>

\* "l.droppedCount.Add(1); recycleEntry(e)": the new entry is dropped
DropNew(p) ==
  /\ droppedCount' = DroppedAfterDropNew(droppedCount)
  /\ selfDrop' = [selfDrop EXCEPT ![pcur[p]] = @ + (droppedCount' - droppedCount)]
  /\ RecycleEntry(pcur[p])
  /\ enqOrder' = IF traceOrder THEN Append(enqOrder, pcur[p]) ELSE enqOrder
  /\ callDrops' = CallCounts(callDrops, pcur[p], droppedCount' - droppedCount)
  /\ EnqReturn(p)
  /\ UNCHANGED <<chanVars, writtenCount, batchCount, ins, callTook, evicted>>

\* a send on the closed channel panics inside the producer
SendPanics(p) ==
  /\ ppc' = [ppc EXCEPT ![p] = "panic"]
  /\ UNCHANGED <<pcur, chanVars, statVars, ins, enqOrder, callDrops, callTook, selfDrop, evicted, recycled, refs, encDone>>

\* "if l.closed.Load() { recycleEntry(e); return }"
EnqCheck(p) ==
  /\ ppc[p] = "enq"
  /\ IF SeesClosed(closed)
     THEN /\ RecycleEntry(pcur[p])
          /\ EnqReturn(p)
     ELSE /\ ppc' = [ppc EXCEPT ![p] = "send"]
          /\ UNCHANGED <<pcur, recycled, refs, encDone>>
  /\ UNCHANGED <<nextRec, lvl, ins, enqOrder, callDrops, callTook, selfDrop, evicted, handed, procOrder, startClosed, calls, lastCall>>
  /\ UNCHANGED <<cfgVars, auxVars, dispatchVars, ringVars, sinkVars, lvlVars, chanVars, statVars, outVars, hookVars, workVars, closeVars>>

\* a send that waits for space in every mode
WaitsForSpace(nb) == FALSE

\* on a full queue the select with default goes on; the plain send of the
\* blocking mode waits
SendHasDefault(nb) == nb

\* the first send: "l.ch <- e" (blocking) or "select { case l.ch <- e: default: }"
EnqSend(p) ==
  /\ ppc[p] = "send"
  /\ IF chClosed > 0 THEN SendPanics(p)
     ELSE IF Len(queue) < bufCap THEN SendOk(p)
     ELSE /\ SendHasDefault(nonBlocking)   \* in blocking mode the producer waits
          /\ IF DropOldestBranch(dropOldest)
             THEN /\ ppc' = [ppc EXCEPT ![p] = "evict"]
                  /\ UNCHANGED <<pcur, chanVars, statVars, ins, enqOrder, callDrops, callTook, selfDrop, evicted, recycled, refs, encDone>>
             ELSE DropNew(p)
  /\ UNCHANGED <<nextRec, lvl, handed, procOrder, startClosed, calls, lastCall>>
  /\ UNCHANGED <<cfgVars, auxVars, dispatchVars, ringVars, sinkVars, lvlVars, outVars, hookVars, workVars, closeVars>>

\* "select { case oldest := <-l.ch: ... default: ... }" of the drop-oldest branch
EnqEvict(p) ==
  /\ ppc[p] = "evict"
  /\ IF queue # <<>>
     THEN /\ queue' = Tail(queue)
          /\ droppedCount' = DroppedAfterEvict(droppedCount)
          /\ evicted' = [evicted EXCEPT ![Head(queue)] = @ + (droppedCount' - droppedCount)]
          /\ RecycleEntry(Head(queue))
          /\ ppc' = [ppc EXCEPT ![p] = "retry"]
          /\ callDrops' = CallCounts(callDrops, pcur[p], droppedCount' - droppedCount)
          /\ callTook' = CallCounts(callTook, pcur[p], Len(queue) - Len(queue'))
          /\ UNCHANGED <<pcur, closed, chClosed, writtenCount, batchCount, ins, enqOrder, selfDrop, encDone>>
     ELSE IF chClosed > 0
     THEN \* the receive yields nil from the closed channel; recycleEntry(nil) panics
          /\ droppedCount' = DroppedAfterEvict(droppedCount)
          /\ ppc' = [ppc EXCEPT ![p] = "panic"]
          /\ callDrops' = CallCounts(callDrops, pcur[p], droppedCount' - droppedCount)
          /\ UNCHANGED <<pcur, chanVars, writtenCount, batchCount, ins, enqOrder, callTook, selfDrop, evicted,
                         recycled, refs, encDone>>
     ELSE DropNew(p)
  /\ UNCHANGED <<nextRec, lvl, handed, procOrder, startClosed, calls, lastCall>>
  /\ UNCHANGED <<cfgVars, auxVars, dispatchVars, ringVars, sinkVars, lvlVars, outVars, hookVars, workVars, closeVars>>

\* the second send, after the oldest entry was removed
EnqRetry(p) ==
  /\ ppc[p] = "retry"
  /\ IF chClosed > 0 THEN SendPanics(p)
     ELSE IF Len(queue) < bufCap THEN SendOk(p)
     ELSE DropNew(p)
  /\ UNCHANGED <<nextRec, lvl, handed, procOrder, startClosed, calls, lastCall>>
  /\ UNCHANGED <<cfgVars, auxVars, dispatchVars, ringVars, sinkVars, lvlVars, outVars, hookVars, workVars, closeVars>>

(* ---------------------------------------------------------------------- *)
(* Hook subsystem: enqueueHook, the runner goroutines, closeHookRunner.    *)
(* ---------------------------------------------------------------------- *)
\* "if l.hookErrMax <= 0 { l.hookErrMax = defaultHookErrMax }"
EffectiveMax(m) == IF m <= 0 THEN defaultHookErrMax ELSE m

\* an append that never trims the ring
RingAppendNoTrim(log, max, rec) == Append(log, rec)

\* the append of recordHookError: at capacity the oldest records are trimmed
\* so that the ring holds max records after the append
RingAppend(log, max, rec) ==
  IF Len(log) >= max
  THEN LET t == Len(log) - (max - 1)
           trim == IF t < 1 THEN 1 ELSE t
       IN Append(SubSeq(log, trim + 1, Len(log)), rec)
  ELSE Append(log, rec)

\* a failure record: the event, the failure value and (for the properties)
\* the hook whose invocation failed
Failure(e, h, err) == [ev |-> e, hk |-> h, err |-> err]

\* a queue-full branch that drops the event without recording the failure
EnqueueHookSilent(e) ==
  IF hasHooks /\ hookAsync /\ hookCh = "open" /\ Len(hookQ) < hookQueue
  THEN <<Append(hookQ, e), hookErrCount, hookRuns, hookErrLog, hookErrHist>>
  ELSE <<hookQ, hookErrCount, hookRuns, hookErrLog, hookErrHist>>

\* enqueueHook(ev) called by processBatch for entry e; the result is
\* <<hookQ', hookErrCount', hookRuns', hookErrLog', hookErrHist'>>.
EnqueueHook(e) ==
  IF ~hasHooks THEN <<hookQ, hookErrCount, hookRuns, hookErrLog, hookErrHist>>
  ELSE IF hookAsync
       THEN IF hookCh = "open" /\ Len(hookQ) < hookQueue
            THEN <<Append(hookQ, e), hookErrCount, hookRuns, hookErrLog, hookErrHist>>
            ELSE \* default branch: recordHookError(ev, ErrHookQueueFull)
                 <<hookQ, hookErrCount + 1, hookRuns,
                   RingAppend(hookErrLog, EffectiveMax(hookErrMax),
                              Failure(e, NoHook, ErrHookQueueFull)),
                   Append(hookErrHist, Failure(e, NoHook, ErrHookQueueFull))>>
       ELSE \* synchronous: runHooks(ev) on the worker
            <<hookQ, hookErrCount, Inc(hookRuns, e), hookErrLog, hookErrHist>>

\* one runner goroutine: "for task := range l.hookQueueCh { l.runHooks(task.event) }"
HookRun ==
  /\ hookAlive > 0
  /\ hookQ # <<>>
  /\ hookQ' = Tail(hookQ)
  /\ hookRuns' = Inc(hookRuns, Head(hookQ))
  /\ UNCHANGED <<hookCh, hookAlive, hookErrCount>>
  /\ UNCHANGED <<cfgVars, auxVars, dispatchVars, ringVars, sinkVars, lvlVars, chanVars, statVars, outVars, prodVars, recVars, workVars,
                 closeVars>>

\* the range loop ends when the queue is closed and drained
HookExit ==
  /\ hookAlive > 0
  /\ hookQ = <<>>
  /\ hookCh = "closed"
  /\ hookAlive' = hookAlive - 1
  /\ UNCHANGED <<hookCh, hookQ, hookErrCount, hookRuns>>
  /\ UNCHANGED <<cfgVars, auxVars, dispatchVars, ringVars, sinkVars, lvlVars, chanVars, statVars, outVars, prodVars, recVars, workVars,
                 closeVars>>

(* ---------------------------------------------------------------------- *)
(* runHooks: the dispatch of one event to the hook list, on runner R.     *)
(* ---------------------------------------------------------------------- *)
\* what a dispatch step leaves alone
nonHookVars == <<lvlVars, chanVars, statVars, outVars, prodVars, recVars, workVars, closeVars,
                 sinkVars>>

\* "for _, hk := range hooks": the i-th hook of the snapshot
HookAt(snap, cur, i) == snap[i]

\* the hook the runner's loop is at
CurHook(R) == HookAt(rsnap[R], hooks, ridx[R])
CurInv(R) == <<rev[R], CurHook(R)>>

\* the range loop moves to the next hook, or runHooks returns
Advance(R) ==
  IF ridx[R] < Len(rsnap[R])
  THEN /\ ridx' = [ridx EXCEPT ![R] = @ + 1]
       /\ rpc' = [rpc EXCEPT ![R] = "call"]
       /\ UNCHANGED <<rev, dispatched>>
  ELSE /\ ridx' = [ridx EXCEPT ![R] = 1]
       /\ rpc' = [rpc EXCEPT ![R] = "idle"]
       /\ dispatched' = [dispatched EXCEPT ![rev[R]] = TRUE]
       /\ rev' = [rev EXCEPT ![R] = NoRec]

\* recordHookError, first half: "l.hookErrCount.Add(1)"
RecordBegin(R, err) ==
  /\ hookErrCount' = hookErrCount + 1
  /\ rerr' = [rerr EXCEPT ![R] = Failure(rev[R], CurHook(R), err)]
  /\ rpc' = [rpc EXCEPT ![R] = "rec"]
  /\ UNCHANGED <<ridx, rev, dispatched>>

\* "hooks := l.snapshotHooks(); if len(hooks) == 0 { return }"
RunHooksBegin(R, max) ==
  /\ ~crashed
  /\ rpc[R] = "idle"
  /\ evCount < max
  /\ evCount' = evCount + 1
  /\ hooksAtBegin' = [hooksAtBegin EXCEPT ![evCount'] = hooks]
  /\ IF hooks = <<>>
     THEN /\ dispatched' = [dispatched EXCEPT ![evCount'] = TRUE]
          /\ UNCHANGED <<rpc, rev, rsnap, ridx>>
     ELSE /\ rsnap' = [rsnap EXCEPT ![R] = hooks]
          /\ rev' = [rev EXCEPT ![R] = evCount']
          /\ ridx' = [ridx EXCEPT ![R] = 1]
          /\ rpc' = [rpc EXCEPT ![R] = "call"]
          /\ UNCHANGED dispatched
  /\ UNCHANGED <<hooks, hookTimeoutOn, hookWorkers, rtimer, hgs, herr, rerr, abandoned, crashed,
                 calledOn, panicked, timerFirst, doneFirst>>
  /\ UNCHANGED <<cfgVars, auxVars, hookVars, ringVars, nonHookVars>>

\* no timeout configured: "if err := hk(ev); err != nil { recordHookError }",
\* a panic of hk being recovered by the deferred function
HookCallSync(R, o) ==
  /\ ~crashed
  /\ rpc[R] = "call"
  /\ ~hookTimeoutOn
  /\ calledOn' = [calledOn EXCEPT ![rev[R]] = Append(@, CurHook(R))]
  /\ panicked' = IF o = ErrHookPanic THEN panicked \cup {CurInv(R)} ELSE panicked
  /\ IF o = "ok"
     THEN Advance(R) /\ UNCHANGED <<hookErrCount, rerr>>
     ELSE RecordBegin(R, o)
  /\ UNCHANGED <<hooks, hookTimeoutOn, hookWorkers, rsnap, rtimer, hgs, herr, abandoned, crashed,
                 evCount, hooksAtBegin, timerFirst, doneFirst>>
  /\ UNCHANGED <<hookCh, hookQ, hookAlive, hookRuns>>
  /\ UNCHANGED <<cfgVars, auxVars, ringVars, nonHookVars>>

\* timeout configured: "go func() { err = hk(ev); close(done) }()"
HookLaunch(R) ==
  /\ ~crashed
  /\ rpc[R] = "call"
  /\ hookTimeoutOn
  /\ calledOn' = [calledOn EXCEPT ![rev[R]] = Append(@, CurHook(R))]
  /\ hgs' = [hgs EXCEPT ![R] = "running"]
  /\ rtimer' = [rtimer EXCEPT ![R] = FALSE]
  /\ rpc' = [rpc EXCEPT ![R] = "launched"]
  /\ timerFirst' = [timerFirst EXCEPT ![R] = FALSE]
  /\ doneFirst' = [doneFirst EXCEPT ![R] = FALSE]
  /\ UNCHANGED <<hooks, hookTimeoutOn, hookWorkers, rev, rsnap, ridx, herr, rerr, abandoned,
                 crashed, evCount, hooksAtBegin, dispatched, panicked>>
  /\ UNCHANGED <<cfgVars, auxVars, hookVars, ringVars, nonHookVars>>

\* the hook goroutine: hk returns o ("ok" or "err") and done is closed; a
\* runner parked in the select is woken on the done case
HookGoReturn(R, o) ==
  /\ ~crashed
  /\ hgs[R] = "running"
  /\ hgs' = [hgs EXCEPT ![R] = "done"]
  /\ herr' = [herr EXCEPT ![R] = o]
  /\ doneFirst' = [doneFirst EXCEPT ![R] = ~rtimer[R]]
  /\ rpc' = IF rpc[R] = "parked" THEN [rpc EXCEPT ![R] = "sawDone"] ELSE rpc
  /\ UNCHANGED <<hooks, hookTimeoutOn, hookWorkers, rev, rsnap, ridx, rtimer, rerr, abandoned,
                 crashed, evCount, calledOn, hooksAtBegin, dispatched, panicked, timerFirst>>
  /\ UNCHANGED <<cfgVars, auxVars, hookVars, ringVars, nonHookVars>>

\* the hook goroutine: hk panics; no deferred recover runs on this goroutine
HookGoPanic(R) ==
  /\ ~crashed
  /\ hgs[R] = "running"
  /\ crashed' = TRUE
  /\ panicked' = panicked \cup {CurInv(R)}
  /\ UNCHANGED <<hooks, hookTimeoutOn, hookWorkers, rpc, rev, rsnap, ridx, rtimer, hgs, herr, rerr,
                 abandoned, evCount, calledOn, hooksAtBegin, dispatched, timerFirst, doneFirst>>
  /\ UNCHANGED <<cfgVars, auxVars, hookVars, ringVars, nonHookVars>>

\* the deadline of context.WithTimeout passes: ctx.Done() is closed; a runner
\* parked in the select is woken on the timeout case
HookTimerFires(R) ==
  /\ ~crashed
  /\ rpc[R] \in {"launched", "parked"}
  /\ ~rtimer[R]
  /\ rtimer' = [rtimer EXCEPT ![R] = TRUE]
  /\ timerFirst' = [timerFirst EXCEPT ![R] = (hgs[R] = "running")]
  /\ rpc' = IF rpc[R] = "parked" THEN [rpc EXCEPT ![R] = "sawTimeout"] ELSE rpc
  /\ UNCHANGED <<hooks, hookTimeoutOn, hookWorkers, rev, rsnap, ridx, hgs, herr, rerr, abandoned,
                 crashed, evCount, calledOn, hooksAtBegin, dispatched, panicked, doneFirst>>
  /\ UNCHANGED <<cfgVars, auxVars, hookVars, ringVars, nonHookVars>>

\* the cases of "select { case <-ctx.Done(): case <-done: }" that are ready
ReadyCases(R) ==
  (IF rtimer[R] THEN {"sawTimeout"} ELSE {}) \cup (IF hgs[R] = "done" THEN {"sawDone"} ELSE {})

\* the runner reaches the select: one ready case is chosen, or it parks
HookSelect(R) ==
  /\ ~crashed
  /\ rpc[R] = "launched"
  /\ IF ReadyCases(R) = {}
     THEN rpc' = [rpc EXCEPT ![R] = "parked"]
     ELSE \E c \in ReadyCases(R) : rpc' = [rpc EXCEPT ![R] = c]
  /\ UNCHANGED <<hooks, hookTimeoutOn, hookWorkers, rev, rsnap, ridx, rtimer, hgs, herr, rerr,
                 abandoned, crashed, evCount, calledOn, hooksAtBegin, dispatched, panicked,
                 timerFirst, doneFirst>>
  /\ UNCHANGED <<cfgVars, auxVars, hookVars, ringVars, nonHookVars>>

\* "case <-ctx.Done(): l.recordHookError(ev, ErrHookTimeout)"; the hook
\* goroutine is left running
HookTimedOut(R) ==
  /\ ~crashed
  /\ rpc[R] = "sawTimeout"
  /\ RecordBegin(R, ErrHookTimeout)
  /\ abandoned' = IF hgs[R] = "running" THEN abandoned \cup {CurInv(R)} ELSE abandoned
  /\ hgs' = [hgs EXCEPT ![R] = "none"]
  /\ UNCHANGED <<hooks, hookTimeoutOn, hookWorkers, rsnap, rtimer, herr, crashed, evCount,
                 calledOn, hooksAtBegin, panicked, timerFirst, doneFirst>>
  /\ UNCHANGED <<hookCh, hookQ, hookAlive, hookRuns>>
  /\ UNCHANGED <<cfgVars, auxVars, ringVars, nonHookVars>>

\* "case <-done: if err != nil { l.recordHookError(ev, err) }"
HookCompleted(R) ==
  /\ ~crashed
  /\ rpc[R] = "sawDone"
  /\ IF herr[R] = "ok"
     THEN Advance(R) /\ UNCHANGED <<hookErrCount, rerr>>
     ELSE RecordBegin(R, ErrHook)
  /\ hgs' = [hgs EXCEPT ![R] = "none"]
  /\ UNCHANGED <<hooks, hookTimeoutOn, hookWorkers, rsnap, rtimer, herr, abandoned, crashed,
                 evCount, calledOn, hooksAtBegin, panicked, timerFirst, doneFirst>>
  /\ UNCHANGED <<hookCh, hookQ, hookAlive, hookRuns>>
  /\ UNCHANGED <<cfgVars, auxVars, ringVars, nonHookVars>>

\* an abandoned hook whose late return is recorded as one more failure
AbandonedReturnRecorded(x) ==
  /\ ~crashed
  /\ x \in abandoned
  /\ abandoned' = abandoned \ {x}
  /\ hookErrCount' = hookErrCount + 1
  /\ hookErrHist' = Append(hookErrHist, Failure(x[1], x[2], ErrHook))
  /\ hookErrLog' = Append(hookErrLog, Failure(x[1], x[2], ErrHook))
  /\ UNCHANGED <<hooks, hookTimeoutOn, hookWorkers, rpc, rev, rsnap, ridx, rtimer, hgs, herr, rerr,
                 crashed, evCount, calledOn, hooksAtBegin, dispatched, panicked, timerFirst,
                 doneFirst>>
  /\ UNCHANGED <<hookCh, hookQ, hookAlive, hookRuns, hookErrMax>>
  /\ UNCHANGED <<cfgVars, auxVars, nonHookVars>>

\* an abandoned hook returns (any value): its goroutine assigns err, closes
\* done and ends
AbandonedReturn(x) ==
  /\ ~crashed
  /\ x \in abandoned
  /\ abandoned' = abandoned \ {x}
  /\ UNCHANGED <<hooks, hookTimeoutOn, hookWorkers, rpc, rev, rsnap, ridx, rtimer, hgs, herr, rerr,
                 crashed, evCount, calledOn, hooksAtBegin, dispatched, panicked, timerFirst,
                 doneFirst>>
  /\ UNCHANGED <<cfgVars, auxVars, hookVars, ringVars, nonHookVars>>

\* an abandoned hook panics
AbandonedPanic(x) ==
  /\ ~crashed
  /\ x \in abandoned
  /\ abandoned' = abandoned \ {x}
  /\ crashed' = TRUE
  /\ panicked' = panicked \cup {x}
  /\ UNCHANGED <<hooks, hookTimeoutOn, hookWorkers, rpc, rev, rsnap, ridx, rtimer, hgs, herr, rerr,
                 evCount, calledOn, hooksAtBegin, dispatched, timerFirst, doneFirst>>
  /\ UNCHANGED <<cfgVars, auxVars, hookVars, ringVars, nonHookVars>>

\* recordHookError, second half, under hookErrMu: the append to the ring
RecordAppend(R) ==
  /\ ~crashed
  /\ rpc[R] = "rec"
  /\ hookErrMax' = EffectiveMax(hookErrMax)
  /\ hookErrLog' = RingAppend(hookErrLog, hookErrMax', rerr[R])
  /\ hookErrHist' = Append(hookErrHist, rerr[R])
  /\ Advance(R)
  /\ UNCHANGED <<hooks, hookTimeoutOn, hookWorkers, rsnap, rtimer, hgs, herr, rerr, abandoned,
                 crashed, evCount, calledOn, hooksAtBegin, panicked, timerFirst, doneFirst>>
  /\ UNCHANGED <<cfgVars, auxVars, hookVars, nonHookVars>>

\* SetHooks(hs), the whole call under dynConfig.mu: the list is replaced and,
\* when "l.hookAsync && l.hookQueueCh == nil && len(hooks) > 0",
\* startHookRunner makes the queue and launches l.hookWorkers runners
SetHooks(hs) ==
  /\ ~crashed
  /\ hooks' = hs
  /\ hasHooks' = (hs # <<>>)
  /\ IF hookAsync /\ hookCh = "nil" /\ hs # <<>>
     THEN /\ hookCh' = "open"
          /\ hookQ' = <<>>
          /\ hookAlive' = hookAlive + hookWorkers
     ELSE UNCHANGED <<hookCh, hookQ, hookAlive>>
  /\ UNCHANGED <<nonBlocking, dropOldest, bufCap, nworkers, hookAsync, hookQueue, initSinks,
                 traceOrder, auxVars>>
  /\ UNCHANGED <<hookTimeoutOn, hookWorkers, rpc, rev, rsnap, ridx, rtimer, hgs, herr, rerr,
                 abandoned, crashed, evCount, calledOn, hooksAtBegin, dispatched, panicked,
                 timerFirst, doneFirst>>
  /\ UNCHANGED <<hookErrCount, hookRuns>>
  /\ UNCHANGED <<ringVars, nonHookVars>>

(* ---------------------------------------------------------------------- *)
(* Writer stage: writeToAll.                                              *)
(* ---------------------------------------------------------------------- *)
\* a routing that sends WARN to the non-error primary
IsErrLevelFromError(lv) == lv >= ERROR

\* "isErrLevel := e.lvl >= WARN"
IsErrLevel(lv) == lv >= WARN

\* the sinks one writeToAll call writes to, in order: the primary selected by
\* isError, the rotation sink when present, every extra sink
WriteTargets(isError) ==
  <<IF isError THEN errOut ELSE stdOut>>
  \o (IF rotationSink # NoSink THEN <<rotationSink>> ELSE <<>>)
  \o extraW

RECURSIVE WriteEach(_, _, _)
\* safeWrite of entry e to each sink of targets (no write fails)
WriteEach(log, targets, e) ==
  IF targets = <<>> THEN log
  ELSE WriteEach([log EXCEPT ![Head(targets)] = Append(@, e)], Tail(targets), e)

(* ---------------------------------------------------------------------- *)
(* workerLoop and processBatch.                                           *)
(* ---------------------------------------------------------------------- *)
\* "case e, ok := <-l.ch" with ok: append, flush when the batch is full
\* ghost: which SetBatchConfig calls had returned when the flush began
FlushBegins(w) ==
  flushConf' = [flushConf EXCEPT ![w] = IF sbpc = "idle" THEN sbCalls ELSE -1]

\* a batch that takes the received entry in front of the pending ones
BatchPrepend(items, e) == <<e>> \o items

\* "batch.items = append(batch.items, e)"
BatchAppend(items, e) == Append(items, e)

WorkerRecv(w) ==
  /\ wpc[w] = "loop"
  /\ queue # <<>>
  /\ queue' = Tail(queue)
  /\ batch' = [batch EXCEPT ![w] = BatchAppend(@, Head(queue))]
  /\ IF Len(batch'[w]) >= ClampMin1(batchSizeA)
     THEN /\ wpc' = [wpc EXCEPT ![w] = "flush"]
          /\ wret' = [wret EXCEPT ![w] = "size"]
          /\ FlushBegins(w)
     ELSE UNCHANGED <<wpc, wret, flushConf>>
  /\ UNCHANGED <<bpos, batchSizeA, closed, chClosed>>
  /\ UNCHANGED <<dynBatch, batchWaitA, wwait, armed, timer, sbpc, sbCalls>>
  /\ UNCHANGED <<cfgVars, sideVars, fmtVars, dispatchVars, ringVars, sinkVars, lvlVars, statVars, outVars, hookVars, prodVars, recVars, closeVars>>

\* a final-drain branch that returns without flushing
ReturnWithoutFlush(items) == "exit"

\* the final-drain branch "flush(); return": a pending batch is processed first
FinalDrain(items) == IF items = <<>> THEN "exit" ELSE "flush"

\* "case e, ok := <-l.ch" with !ok: the channel is closed and drained
WorkerClosed(w) ==
  /\ wpc[w] = "loop"
  /\ queue = <<>>
  /\ chClosed > 0
  /\ wpc' = [wpc EXCEPT ![w] = FinalDrain(batch[w])]
  /\ wret' = [wret EXCEPT ![w] = IF batch[w] = <<>> THEN "finalEmpty" ELSE "final"]
  /\ UNCHANGED <<batch, bpos, batchSizeA>>
  /\ UNCHANGED <<cfgVars, auxVars, dispatchVars, ringVars, sinkVars, lvlVars, chanVars, statVars, outVars, hookVars, prodVars, recVars,
                 closeVars>>

\* "case <-timer.C": flush whatever the batch holds
TimerFire(w) ==
  /\ wpc[w] = "loop"
  /\ batch[w] # <<>>
  /\ wpc' = [wpc EXCEPT ![w] = "flush"]
  /\ wret' = [wret EXCEPT ![w] = "timer"]
  /\ FlushBegins(w)
  /\ UNCHANGED <<batch, bpos, batchSizeA>>
  /\ UNCHANGED <<dynBatch, batchWaitA, wwait, armed, timer, sbpc, sbCalls>>
  /\ UNCHANGED <<cfgVars, sideVars, fmtVars, dispatchVars, ringVars, sinkVars, lvlVars, chanVars, statVars, outVars, hookVars, prodVars, recVars,
                 closeVars>>

\* a send on the closed hook queue panics inside the worker
HookSendPanics == hasHooks /\ hookAsync /\ hookCh = "closed"

WorkerPanics(w) ==
  /\ wpc[w] = "flush"
  /\ bpos[w] <= Len(batch[w])
  /\ HookSendPanics
  /\ writtenCount' = writtenCount + 1
  /\ wpc' = [wpc EXCEPT ![w] = "panic"]
  /\ UNCHANGED <<batch, bpos, wret, batchSizeA, droppedCount, batchCount>>
  /\ UNCHANGED <<cfgVars, auxVars, dispatchVars, ringVars, sinkVars, lvlVars, chanVars, outVars, hookVars, prodVars, recVars, closeVars>>

\* a re-arm that leaves a pending signal in timer.C
ResetWithoutDrain(t) ==
  [t EXCEPT !.run = TRUE, !.sig = IF t.sig = "none" THEN "none" ELSE "stale"]

\* "if !timer.Stop() { select { case <-timer.C: default: } }; timer.Reset(wait)":
\* Stop reports false when the timer has expired, a signal it left in timer.C
\* is received, the default case keeps the worker from waiting for one
StopDrainReset(t) ==
  [run |-> TRUE, sig |-> "none",
   drained |-> IF ~t.run /\ t.sig # "none" THEN t.drained + 1 ELSE t.drained]

\* a worker that leaves the timer as the flush found it
TimerNotRearmed(branch, t) == t

\* the timer once flush() has returned: the size branch stops, drains and
\* resets it, the timer branch resets it, the final flush leaves it
TimerAfterFlush(branch, t) ==
  IF branch = "size" THEN StopDrainReset(t)
  ELSE IF branch = "timer" THEN [t EXCEPT !.run = TRUE]
  ELSE t

\* the runtime: the running timer expires and sends on timer.C (capacity 1,
\* the send is dropped when a signal is still there)
TimerExpire(w) ==
  /\ timer[w].run
  /\ wpc[w] \in {"loop", "flush"}
  /\ timer' = [timer EXCEPT ![w] = [run |-> FALSE,
                                     sig |-> IF timer[w].sig = "none" THEN "fresh"
                                             ELSE timer[w].sig,
                                     drained |-> timer[w].drained]]
  /\ UNCHANGED <<dynBatch, batchWaitA, wwait, armed, sbpc, sbCalls, flushConf>>
  /\ UNCHANGED <<cfgVars, sideVars, fmtVars, dispatchVars, ringVars, sinkVars, lvlVars, chanVars, statVars, outVars,
                 hookVars, prodVars, recVars, workVars, closeVars>>

\* "case <-timer.C": the worker receives the signal; flush() processes a
\* non-empty batch, and with an empty one the wait is re-read and the timer reset
TimerRecv(w) ==
  /\ wpc[w] = "loop"
  /\ timer[w].sig # "none"
  /\ IF batch[w] # <<>>
     THEN /\ wpc' = [wpc EXCEPT ![w] = "flush"]
          /\ wret' = [wret EXCEPT ![w] = "timer"]
          /\ FlushBegins(w)
          /\ timer' = [timer EXCEPT ![w].sig = "none"]
          /\ UNCHANGED <<wwait, armed>>
     ELSE /\ wwait' = [wwait EXCEPT ![w] = ClampWait(batchWaitA)]
          /\ armed' = [armed EXCEPT ![w] = wwait'[w]]
          /\ timer' = [timer EXCEPT ![w].sig = "none", ![w].run = TRUE]
          /\ UNCHANGED <<wpc, wret, flushConf>>
  /\ UNCHANGED <<batch, bpos, batchSizeA>>
  /\ UNCHANGED <<dynBatch, batchWaitA, sbpc, sbCalls>>
  /\ UNCHANGED <<cfgVars, sideVars, fmtVars, dispatchVars, ringVars, sinkVars, lvlVars, chanVars, statVars, outVars,
                 hookVars, prodVars, recVars, closeVars>>

\* the local wait after flush() returned: the timer branch re-reads
\* l.batchWaitA, the size branch resets the timer with the value it holds
WaitAfterFlush(branch, wait, published) ==
  IF branch = "timer" THEN ClampWait(published) ELSE wait

\* "case <-timer.C" with an empty batch: flush() does nothing, the wait is
\* re-read and the timer reset
TimerIdle(w) ==
  /\ wpc[w] = "loop"
  /\ batch[w] = <<>>
  /\ wwait' = [wwait EXCEPT ![w] = ClampWait(batchWaitA)]
  /\ armed' = [armed EXCEPT ![w] = wwait'[w]]
  /\ UNCHANGED <<dynBatch, batchWaitA, timer, sbpc, sbCalls, flushConf>>
  /\ UNCHANGED <<cfgVars, sideVars, fmtVars, dispatchVars, ringVars, sinkVars, lvlVars, chanVars, statVars, outVars,
                 hookVars, prodVars, recVars, workVars, closeVars>>

\* SetBatchConfig, first part: "l.dynConfig.mu.Lock(); l.dynConfig.Batch = bc;
\* l.batchSizeA.Store(int64(bc.Size))"
SetBatchBegin(size, wait) ==
  /\ sbpc = "idle"
  /\ sbCalls < MaxConf
  /\ dynBatch' = <<size, wait>>
  /\ batchSizeA' = size
  /\ sbpc' = "wait"
  /\ UNCHANGED <<batchWaitA, wwait, armed, timer, sbCalls, flushConf, wpc, batch, bpos, wret>>
  /\ UNCHANGED <<cfgVars, sideVars, fmtVars, dispatchVars, ringVars, sinkVars, lvlVars, chanVars, statVars, outVars,
                 hookVars, prodVars, recVars, closeVars>>

\* SetBatchConfig, second part: "l.batchWaitA.Store(int64(bc.MaxWait))" and
\* the deferred unlock
SetBatchStoreWait ==
  /\ sbpc = "wait"
  /\ batchWaitA' = dynBatch[2]
  /\ sbpc' = "idle"
  /\ sbCalls' = sbCalls + 1
  /\ UNCHANGED <<dynBatch, wwait, armed, timer, flushConf>>
  /\ UNCHANGED <<cfgVars, sideVars, fmtVars, dispatchVars, ringVars, sinkVars, lvlVars, chanVars, statVars, outVars,
                 hookVars, prodVars, recVars, workVars, closeVars>>

\* what "formatter.Format(hookEv)" can return: TRUE for bytes, FALSE for an
\* error (TextFormatter always returns a nil error)
FormatOutcomes(f) == IF f = "TextFormatter" THEN {TRUE} ELSE {TRUE, FALSE}

\* "formatter.Format(hookEv)" on the nil interface value: the worker
\* goroutine panics after the record was counted and its hook event enqueued
WorkerFormatPanics(w) ==
  /\ wpc[w] = "flush"
  /\ bpos[w] <= Len(batch[w])
  /\ ~HookSendPanics
  /\ formatter = "nil"
  /\ LET hk == EnqueueHook(batch[w][bpos[w]])
     IN /\ hookQ' = hk[1]
        /\ hookErrCount' = hk[2]
        /\ hookRuns' = hk[3]
        /\ hookErrLog' = hk[4]
        /\ hookErrHist' = hk[5]
        /\ hookErrMax' = IF hk[2] # hookErrCount THEN EffectiveMax(hookErrMax) ELSE hookErrMax
  /\ writtenCount' = writtenCount + 1
  /\ wpc' = [wpc EXCEPT ![w] = "panic"]
  /\ UNCHANGED <<batch, bpos, wret, batchSizeA, droppedCount, batchCount, hookCh, hookAlive>>
  /\ UNCHANGED <<cfgVars, auxVars, dispatchVars, sinkVars, lvlVars, chanVars, outVars, prodVars,
                 recVars, closeVars>>

\* one iteration of processBatch on entry batch[w][bpos[w]]; after the last
\* entry flush() counts the batch and resets it
\* a formatter failure that is not accounted as a write error
FormatErrorNotCounted(errs) == errs

\* "l.writeErrCount.Add(1)" in the "if err != nil" branch after Format
AfterFormatError(errs) == errs + 1

WorkerProcess(w) ==
  /\ wpc[w] = "flush"
  /\ bpos[w] <= Len(batch[w])
  /\ ~HookSendPanics
  /\ formatter # "nil"
  /\ \E ok \in FormatOutcomes(formatter) :
     LET e == batch[w][bpos[w]]
         hk == EnqueueHook(e)
         last == bpos[w] = Len(batch[w])
     IN \* "l.writtenCount.Add(1)" is the first statement of the loop body
        /\ writtenCount' = writtenCount + 1
        /\ hookQ' = hk[1]
        /\ hookErrCount' = hk[2]
        /\ hookRuns' = hk[3]
        /\ hookErrLog' = hk[4]
        /\ hookErrHist' = hk[5]
        /\ hookErrMax' = IF hk[2] # hookErrCount THEN EffectiveMax(hookErrMax) ELSE hookErrMax
        /\ procOrder' = IF traceOrder THEN Append(procOrder, e) ELSE procOrder
        /\ IF ok
           THEN /\ sinkLog' = WriteEach(sinkLog, WriteTargets(IsErrLevel(lvl[e])), e)
                /\ handed' = Inc(handed, e)
                /\ UNCHANGED <<writeErrCount, fmtErrCount>>
           ELSE \* "l.writeErrCount.Add(1); recycleEntry(e); continue"
                /\ writeErrCount' = AfterFormatError(writeErrCount)
                /\ fmtErrCount' = fmtErrCount + 1
                /\ UNCHANGED <<sinkLog, handed>>
        /\ RecycleEntry(e)
        /\ IF last
           THEN /\ batchCount' = batchCount + 1
                /\ batch' = [batch EXCEPT ![w] = <<>>]
                /\ bpos' = [bpos EXCEPT ![w] = 1]
                /\ wpc' = [wpc EXCEPT ![w] = IF wret[w] = "final" THEN "exit" ELSE "loop"]
                /\ wwait' = [wwait EXCEPT ![w] = WaitAfterFlush(wret[w], @, batchWaitA)]
                /\ armed' = [armed EXCEPT ![w] = IF wret[w] = "final" THEN @ ELSE wwait'[w]]
                /\ timer' = [timer EXCEPT ![w] = TimerAfterFlush(wret[w], @)]
           ELSE /\ bpos' = [bpos EXCEPT ![w] = @ + 1]
                /\ UNCHANGED <<batchCount, batch, wpc, wwait, armed, timer>>
  /\ UNCHANGED <<wret, batchSizeA, droppedCount, hookCh, hookAlive>>
  /\ UNCHANGED <<stdOut, errOut, rotationSink, extraW, sinkClosed>>
  /\ UNCHANGED <<nextRec, lvl, ins, enqOrder, callDrops, callTook, selfDrop, evicted, startClosed, encDone>>
  /\ UNCHANGED <<dynBatch, batchWaitA, sbpc, sbCalls, flushConf, formatter>>
  /\ UNCHANGED <<retryMax, writerErrs, swpc, swTargets, swNames, swMax, swAttempt, swRead,
                 swCalls, swOk, wcalls, nconf, installed>>
  /\ UNCHANGED <<cfgVars, sideVars, dispatchVars, lvlVars, chanVars, prodVars, closeVars>>

(* ---------------------------------------------------------------------- *)
(* Masking stage: applyMasking.  A message is a sequence of tokens: the    *)
(* braces of a JSON object, string literals, the blank.  A JSON object of  *)
(* the model has at most one field, written <<"{", key, value, "}">>.      *)
(* ---------------------------------------------------------------------- *)
MaskTokens == {"{", "}", "p", "s", "*", " "}
StringTokens == {"p", "s", "*"}
Messages == UNION {[1..n -> MaskTokens] : n \in 0..MaxMsg}

\* "rule.Pattern.ReplaceAllString(masked, rule.Replacement)" for a pattern
\* that matches the literal token sequence pat: leftmost matches, not
\* overlapping, each replaced by rep
RECURSIVE ReplaceAllString(_, _, _)
ReplaceAllString(str, pat, rep) ==
  IF Len(str) < Len(pat) THEN str
  ELSE IF SubSeq(str, 1, Len(pat)) = pat
       THEN rep \o ReplaceAllString(SubSeq(str, Len(pat) + 1, Len(str)), pat, rep)
       ELSE <<Head(str)>> \o ReplaceAllString(Tail(str), pat, rep)

\* the rules applied one after the other, each to the result of the one
\* before; a rule with a nil pattern (<<>>) is skipped
RECURSIVE maskRegexWithRules(_, _)
maskRegexWithRules(str, rules) ==
  IF rules = <<>> THEN str
  ELSE maskRegexWithRules(
         IF Head(rules).pat # <<>>
         THEN ReplaceAllString(str, Head(rules).pat, Head(rules).rep)
         ELSE str,
         Tail(rules))

\* json.Decoder.Decode: blanks are skipped, the first JSON value is read and
\* what follows it is not looked at
Decode(str) ==
  LET t == SelectSeq(str, LAMBDA c : c # " ")
      fail == [ok |-> FALSE, kind |-> "none", key |-> "", val |-> ""]
  IN IF t = <<>> THEN fail
     ELSE IF t[1] \in StringTokens
          THEN [ok |-> TRUE, kind |-> "scalar", key |-> "", val |-> t[1]]
     ELSE IF t[1] = "{" /\ Len(t) >= 2 /\ t[2] = "}"
          THEN [ok |-> TRUE, kind |-> "empty", key |-> "", val |-> ""]
     ELSE IF /\ t[1] = "{" /\ Len(t) >= 4 /\ t[2] \in StringTokens
             /\ t[3] \in StringTokens /\ t[4] = "}"
          THEN [ok |-> TRUE, kind |-> "object", key |-> t[2], val |-> t[3]]
     ELSE fail

\* json.Encoder.Encode followed by bytes.TrimRight(..., "\n")
Encode(d) ==
  IF d.kind = "scalar" THEN <<d.val>>
  ELSE IF d.kind = "empty" THEN <<"{", "}">>
  ELSE <<"{", d.key, d.val, "}">>

shouldMaskKeyWithRules(key, rules) == \E i \in 1..Len(rules) : key \in rules[i].keys

getMaskReplacementForKeyWithRules(key, rules) ==
  IF shouldMaskKeyWithRules(key, rules)
  THEN rules[CHOOSE i \in 1..Len(rules) :
               key \in rules[i].keys /\ \A j \in 1..(i - 1) : key \notin rules[j].keys].rep
  ELSE "*"

maskJSONValueWithRules(d, rules) ==
  IF d.kind = "object" /\ shouldMaskKeyWithRules(d.key, rules)
  THEN [d EXCEPT !.val = getMaskReplacementForKeyWithRules(d.key, rules)]
  ELSE d

\* returns <<masked, ok>>
maskJSONFieldsWithRules(str, rules) ==
  IF rules = <<>> THEN <<str, TRUE>>
  ELSE LET d == Decode(str)
       IN IF ~d.ok THEN <<str, FALSE>>
          ELSE <<Encode(maskJSONValueWithRules(d, rules)), TRUE>>

applyMasking(msg, mode, regexes, fields) ==
  LET masked == maskJSONFieldsWithRules(msg, fields)
  IN IF mode /\ masked[2]
     THEN maskRegexWithRules(masked[1], regexes)
     ELSE maskRegexWithRules(msg, regexes)

nonMaskVars == <<cfgVars, timerVars, fmtVars, globalVars, countVars, lvlVars, chanVars, statVars, outVars,
                 hookVars, prodVars, recVars, workVars, closeVars, dispatchVars, ringVars,
                 sinkVars>>

\* "msg = l.applyMasking(msg, jsonMode)" on the message
MaskOnce ==
  /\ mpc = "in"
  /\ msgOnce' = applyMasking(msgIn, jsonMode, regexRules, jsonFieldRules)
  /\ mpc' = "once"
  /\ UNCHANGED <<regexRules, jsonFieldRules, jsonMode, msgIn, msgTwice>>
  /\ UNCHANGED nonMaskVars

\* applyMasking on the message it returned
MaskTwice ==
  /\ mpc = "once"
  /\ msgTwice' = applyMasking(msgOnce, jsonMode, regexRules, jsonFieldRules)
  /\ mpc' = "twice"
  /\ UNCHANGED <<regexRules, jsonFieldRules, jsonMode, msgIn, msgOnce>>
  /\ UNCHANGED nonMaskVars

(* ---------------------------------------------------------------------- *)
(* ReinitGlobalLogger.                                                    *)
(* ---------------------------------------------------------------------- *)
\* the variables of the logger instance
instanceVars == <<cfgVars, timerVars, fmtVars, maskVars, countVars, lvlVars, chanVars, statVars, outVars, hookVars, prodVars,
                  recVars, workVars, closeVars, dispatchVars, ringVars, sinkVars>>

\* "ensureInit(); old := func() *Logger { RLock; return globalLogger }()"
ReinitRead(c) ==
  /\ gpc[c] = "idle"
  /\ gcalls[c] < MaxReinit
  /\ gcalls' = Inc(gcalls, c)
  /\ gold' = [gold EXCEPT ![c] = globalLogger]
  /\ gpc' = [gpc EXCEPT ![c] = "new"]
  /\ UNCHANGED <<globalLogger, started, closeBegun, gnew>>
  /\ UNCHANGED instanceVars

\* "newL := newLoggerFromConfig(cfg); newL.startWorkers()"
ReinitStart(c) ==
  /\ gpc[c] = "new"
  /\ LET n == CHOOSE x \in Loggers : x \notin started /\ \A y \in Loggers : y < x => y \in started
     IN /\ gnew' = [gnew EXCEPT ![c] = n]
        /\ started' = started \cup {n}
  /\ gpc' = [gpc EXCEPT ![c] = "swap"]
  /\ UNCHANGED <<globalLogger, closeBegun, gold, gcalls>>
  /\ UNCHANGED instanceVars

\* "globalMu.Lock(); globalLogger = newL; globalMu.Unlock()"
ReinitSwap(c) ==
  /\ gpc[c] = "swap"
  /\ globalLogger' = gnew[c]
  /\ gpc' = [gpc EXCEPT ![c] = "close"]
  /\ UNCHANGED <<started, closeBegun, gold, gnew, gcalls>>
  /\ UNCHANGED instanceVars

\* "if old != nil { err = closeLogger(old, closeOldTimeout) }; return newL, err"
ReinitClose(c) ==
  /\ gpc[c] = "close"
  /\ closeBegun' = IF gold[c] # NoLogger THEN closeBegun \cup {gold[c]} ELSE closeBegun
  /\ gpc' = [gpc EXCEPT ![c] = "idle"]
  /\ UNCHANGED <<globalLogger, started, gold, gnew, gcalls>>
  /\ UNCHANGED instanceVars

(* ---------------------------------------------------------------------- *)
(* CloseDetached / closeLogger and its waiter goroutine.                  *)
(* ---------------------------------------------------------------------- *)
\* a plain store in place of the compare-and-swap: every caller "wins"
SetWithoutCompare(flag) == TRUE

\* atomicBool.TrySetTrue: the compare-and-swap succeeds iff the flag was unset
TrySetTrue(flag) == ~flag

\* every writer of the model implements io.Closer
IsCloser(s) == s \in Sinks

\* some Close/CloseDetached call has returned success
AnyOk == \E c \in Closers : cres[c] = "ok"

\* the call of caller c returns res ("ok" or "timeout") by way of via
CloseReturn(c, res, via) ==
  /\ cpc' = [cpc EXCEPT ![c] = "ret"]
  /\ cres' = [cres EXCEPT ![c] = res]
  /\ cvia' = [cvia EXCEPT ![c] = via]

\* CloseDetached(l, timeout): "if l == nil || l.closed.Load() { return nil }"
CloseCall(c, tmo) ==
  /\ cpc[c] = "idle"
  /\ ctimeout' = [ctimeout EXCEPT ![c] = tmo]
  /\ cafterOk' = [cafterOk EXCEPT ![c] = AnyOk]
  /\ IF closed
     THEN CloseReturn(c, "ok", "early")
     ELSE /\ cpc' = [cpc EXCEPT ![c] = "try"]
          /\ UNCHANGED <<cres, cvia>>
  /\ UNCHANGED <<waiterPc, done, hookCloseRuns, writersCloseRuns>>
  /\ UNCHANGED <<cfgVars, auxVars, dispatchVars, ringVars, sinkVars, lvlVars, chanVars, statVars, outVars, hookVars, prodVars, recVars,
                 workVars>>

\* closeLogger: "if !l.closed.TrySetTrue() { return nil }"
CloseTry(c) ==
  /\ cpc[c] = "try"
  /\ IF TrySetTrue(closed)
     THEN /\ closed' = TRUE
          /\ cpc' = [cpc EXCEPT ![c] = "closeCh"]
          /\ UNCHANGED <<cres, cvia>>
     ELSE /\ CloseReturn(c, "ok", "early")
          /\ UNCHANGED closed
  /\ UNCHANGED <<chClosed, queue, ctimeout, cafterOk, waiterPc, done, hookCloseRuns,
                 writersCloseRuns>>
  /\ UNCHANGED <<cfgVars, auxVars, dispatchVars, ringVars, sinkVars, lvlVars, statVars, outVars, hookVars, prodVars, recVars, workVars>>

\* closeLogger: "close(l.ch)" and the start of the waiter goroutine
CloseChan(c) ==
  /\ cpc[c] = "closeCh"
  /\ chClosed' = chClosed + 1
  /\ waiterPc' = "wgWait"
  /\ cpc' = [cpc EXCEPT ![c] = "wait"]
  /\ UNCHANGED <<closed, queue, ctimeout, cres, cvia, cafterOk, done, hookCloseRuns,
                 writersCloseRuns>>
  /\ UNCHANGED <<cfgVars, auxVars, dispatchVars, ringVars, sinkVars, lvlVars, statVars, outVars, hookVars, prodVars, recVars, workVars>>

\* closeLogger: "<-done" (printFinalStats, return nil)
CloseWaitDone(c) ==
  /\ cpc[c] = "wait"
  /\ done
  /\ CloseReturn(c, "ok", "done")
  /\ UNCHANGED <<ctimeout, cafterOk, waiterPc, done, hookCloseRuns, writersCloseRuns>>
  /\ UNCHANGED <<cfgVars, auxVars, dispatchVars, ringVars, sinkVars, lvlVars, chanVars, statVars, outVars, hookVars, prodVars, recVars,
                 workVars>>

\* closeLogger: "case <-time.After(timeout)" (only when timeout > 0)
CloseWaitTimeout(c) ==
  /\ cpc[c] = "wait"
  /\ ctimeout[c]
  /\ CloseReturn(c, "timeout", "timer")
  /\ UNCHANGED <<ctimeout, cafterOk, waiterPc, done, hookCloseRuns, writersCloseRuns>>
  /\ UNCHANGED <<cfgVars, auxVars, dispatchVars, ringVars, sinkVars, lvlVars, chanVars, statVars, outVars, hookVars, prodVars, recVars,
                 workVars>>

AllWorkersExited == \A w \in Workers : wpc[w] \in {"off", "exit"}

\* a waiter that only signals done, leaving the closing to the caller that
\* receives the signal (closeLogger of stats_close.go)
SignalDoneOnly == "end"

\* what the waiter goroutine does once l.wg.Wait() has returned: closeHookRunner
\* and closeAllWriters, before it closes done
AfterWgWait == "hookClose"

\* waiter: "l.wg.Wait()"
WaiterWg ==
  /\ waiterPc = "wgWait"
  /\ AllWorkersExited
  /\ waiterPc' = AfterWgWait
  /\ done' = (waiterPc' = "end")
  /\ UNCHANGED <<cpc, ctimeout, cres, cvia, cafterOk, hookCloseRuns, writersCloseRuns>>
  /\ UNCHANGED <<cfgVars, auxVars, dispatchVars, ringVars, sinkVars, lvlVars, chanVars, statVars, outVars, hookVars, prodVars, recVars,
                 workVars>>

\* waiter: closeHookRunner, "close(l.hookQueueCh)"
WaiterCloseHook ==
  /\ waiterPc = "hookClose"
  /\ IF hookAsync /\ hookCh # "nil"
     THEN /\ hookCh' = "closed"
          /\ hookCloseRuns' = hookCloseRuns + 1
          /\ waiterPc' = "hookWait"
     ELSE /\ waiterPc' = "writers"
          /\ UNCHANGED <<hookCh, hookCloseRuns>>
  /\ UNCHANGED <<hookQ, hookAlive, hookErrCount, hookRuns>>
  /\ UNCHANGED <<cpc, ctimeout, cres, cvia, cafterOk, done, writersCloseRuns>>
  /\ UNCHANGED <<cfgVars, auxVars, dispatchVars, ringVars, sinkVars, lvlVars, chanVars, statVars, outVars, prodVars, recVars, workVars>>

\* a closeHookRunner that leaves the reference to the closed channel in place
KeptAfterClose == "closed"

\* "l.hookQueueCh = nil": the reference after the runners have exited
ResetAfterClose == "nil"

\* a closeHookRunner that does not wait for the runners
HookWgNotWaited(alive) == TRUE

\* "l.hookWg.Wait()": every runner goroutine has returned
HookWgWait(alive) == alive = 0

\* waiter: closeHookRunner, "l.hookWg.Wait(); l.hookQueueCh = nil"
WaiterHookWait ==
  /\ waiterPc = "hookWait"
  /\ HookWgWait(hookAlive)
  /\ hookCh' = ResetAfterClose
  /\ waiterPc' = "writers"
  /\ UNCHANGED <<hookQ, hookAlive, hookErrCount, hookRuns>>
  /\ UNCHANGED <<cpc, ctimeout, cres, cvia, cafterOk, done, hookCloseRuns, writersCloseRuns>>
  /\ UNCHANGED <<cfgVars, auxVars, dispatchVars, ringVars, sinkVars, lvlVars, chanVars, statVars, outVars, prodVars, recVars, workVars>>

RECURSIVE CloseEach(_, _)
\* Close is invoked on each sink of targets that implements io.Closer
CloseEach(cnt, targets) ==
  IF targets = <<>> THEN cnt
  ELSE CloseEach(IF IsCloser(Head(targets)) THEN Inc(cnt, Head(targets)) ELSE cnt,
                 Tail(targets))

\* the sinks closeAllWriters closes, in order: stdOut, errOut, extras, rotation
CloseTargets ==
  <<stdOut, errOut>> \o extraW
  \o (IF rotationSink # NoSink THEN <<rotationSink>> ELSE <<>>)

\* waiter: closeAllWriters, then "close(done)"
WaiterCloseWriters ==
  /\ waiterPc = "writers"
  /\ sinkClosed' = CloseEach(sinkClosed, CloseTargets)
  /\ extraW' = <<>>
  /\ rotationSink' = NoSink
  /\ writersCloseRuns' = writersCloseRuns + 1
  /\ done' = TRUE
  /\ waiterPc' = "end"
  /\ UNCHANGED <<stdOut, errOut, sinkLog>>
  /\ UNCHANGED <<cpc, ctimeout, cres, cvia, cafterOk, hookCloseRuns>>
  /\ UNCHANGED <<cfgVars, auxVars, dispatchVars, ringVars, sinkVars, lvlVars, chanVars, statVars, hookVars, prodVars, recVars, workVars>>

(* ---------------------------------------------------------------------- *)
(* SetMinLevel.                                                           *)
(* ---------------------------------------------------------------------- *)
\* "l.dynConfig.mu.Lock(); l.dynConfig.MinLevel = level"
SetMinLevelBegin(L) ==
  /\ cfgpc = "idle"
  /\ cfgArg' = L
  /\ dynMinLevel' = L
  /\ cfgpc' = "store"
  /\ UNCHANGED minLevel
  /\ UNCHANGED <<cfgVars, auxVars, dispatchVars, ringVars, sinkVars, chanVars, statVars, outVars, hookVars, prodVars, recVars, workVars,
                 closeVars>>

\* the value SetMinLevel publishes to the atomic that the log calls read
PublishedLevel(L, old) == L

\* "l.minLevel.Store(int32(level))" and return
SetMinLevelStore ==
  /\ cfgpc = "store"
  /\ minLevel' = PublishedLevel(cfgArg, minLevel)
  /\ cfgpc' = "ret"
  /\ UNCHANGED <<dynMinLevel, cfgArg>>
  /\ UNCHANGED <<cfgVars, auxVars, dispatchVars, ringVars, sinkVars, chanVars, statVars, outVars, hookVars, prodVars, recVars, workVars,
                 closeVars>>

(* ---------------------------------------------------------------------- *)
(* safeWrite with retries, the error counters, and the reconfiguration of *)
(* the sink set.                                                          *)
(* ---------------------------------------------------------------------- *)
\* what the writer-stage steps of the worker leave alone
nonWriterVars == <<cfgVars, auxVars, dispatchVars, ringVars, lvlVars, chanVars, statVars, hookVars, prodVars,
                   recVars, closeVars>>

\* "if maxRetries < 0 { maxRetries = 0 }"
ClampMin0(n) == IF n < 0 THEN 0 ELSE n

\* a loop bound taken from the live policy at every iteration
RetryLimitLive(snap, live) == ClampMin0(live)

\* "if attempt == maxRetries": maxRetries is the local of the snapshot rp
RetryLimit(snap, live) == snap

\* the names writeToAll passes to safeWrite, in the order of WriteTargets
WriteNames(isError) ==
  <<IF isError THEN StderrName ELSE StdoutName>>
  \o (IF rotationSink # NoSink THEN <<rotationSink>> ELSE <<>>)
  \o extraW

\* SetRetryPolicy(rp): "l.retryPolicy = rp" under dynConfig.mu
SetRetryPolicy(n) ==
  /\ retryMax' = n
  /\ UNCHANGED <<writeErrCount, writerErrs, swpc, swTargets, swNames, swMax, swAttempt, swRead,
                 swCalls, swOk, wcalls, nconf, installed>>
  /\ UNCHANGED <<nonWriterVars, outVars, workVars>>

\* writeToAll(p, isError) on worker w: the snapshot of the writers under
\* outputsMu
WriteToAllBegin(w, isError, max) ==
  /\ wpc[w] = "loop"
  /\ swpc = "idle"
  /\ wcalls < max
  /\ wcalls' = wcalls + 1
  /\ wpc' = [wpc EXCEPT ![w] = "write"]
  /\ UNCHANGED nconf
  /\ swTargets' = WriteTargets(isError)
  /\ swNames' = WriteNames(isError)
  /\ swpc' = "begin"
  /\ UNCHANGED <<retryMax, writeErrCount, writerErrs, swMax, swAttempt, swRead, swCalls, swOk,
                 installed>>
  /\ UNCHANGED <<batch, bpos, wret, batchSizeA>>
  /\ UNCHANGED <<nonWriterVars, outVars>>

\* the next safeWrite call of writeToAll: "rp := l.retryPolicy" and the clamp;
\* after the last writer writeToAll returns
SafeWriteBegin(w) ==
  /\ wpc[w] = "write"
  /\ swpc = "begin"
  /\ IF swTargets = <<>>
     THEN /\ swpc' = "idle"
          /\ wpc' = [wpc EXCEPT ![w] = "loop"]
          /\ UNCHANGED <<swMax, swAttempt, swRead, swCalls, swOk>>
     ELSE /\ swRead' = retryMax
          /\ swMax' = ClampMin0(retryMax)
          /\ swAttempt' = 0
          /\ swCalls' = 0
          /\ swOk' = FALSE
          /\ swpc' = "try"
          /\ UNCHANGED wpc
  /\ UNCHANGED <<retryMax, writeErrCount, writerErrs, swTargets, swNames, wcalls, nconf, installed>>
  /\ UNCHANGED <<batch, bpos, wret, batchSizeA>>
  /\ UNCHANGED <<nonWriterVars, outVars>>

\* "_, err = w.Write(p)": success returns, failure does writeErrCount.Add(1)
SafeWriteTry(w, ok) ==
  /\ wpc[w] = "write"
  /\ swpc = "try"
  /\ swAttempt <= swMax
  /\ swCalls' = swCalls + 1
  /\ swOk' = ok
  /\ IF ok
     THEN /\ swTargets' = Tail(swTargets)
          /\ swNames' = Tail(swNames)
          /\ swpc' = "begin"
          /\ UNCHANGED writeErrCount
     ELSE /\ writeErrCount' = writeErrCount + 1
          /\ swpc' = "inc"
          /\ UNCHANGED <<swTargets, swNames>>
  /\ UNCHANGED <<retryMax, writerErrs, swMax, swAttempt, swRead, wcalls, nconf, installed>>
  /\ UNCHANGED workVars
  /\ UNCHANGED <<nonWriterVars, outVars>>

\* a failed sink that makes writeToAll skip the writers after it
SkipRemaining(targets) == <<>>

\* "if attempt == maxRetries { return }": safeWrite returns to writeToAll,
\* which goes on with the writers after this one
AfterGiveUp(targets) == Tail(targets)

\* "l.incWriterErr(name); if attempt == maxRetries { return }", else the
\* sleep and the next iteration
SafeWriteCount(w) ==
  /\ wpc[w] = "write"
  /\ swpc = "inc"
  /\ writerErrs' = Inc(writerErrs, Head(swNames))
  /\ IF swAttempt = RetryLimit(swMax, retryMax)
     THEN /\ swTargets' = AfterGiveUp(swTargets)
          /\ swNames' = AfterGiveUp(swNames)
          /\ swpc' = "begin"
          /\ UNCHANGED swAttempt
     ELSE /\ swAttempt' = swAttempt + 1
          /\ swpc' = "try"
          /\ UNCHANGED <<swTargets, swNames>>
  /\ UNCHANGED <<retryMax, writeErrCount, swMax, swRead, swCalls, swOk, wcalls, nconf, installed>>
  /\ UNCHANGED workVars
  /\ UNCHANGED <<nonWriterVars, outVars>>

\* SetOutputs(stdOut, errOut, writers, names): non-nil primaries replace the
\* old ones, the extras are replaced by writers; nothing is closed
SetOutputs(std, err, ws) ==
  /\ nconf < MaxConf
  /\ nconf' = nconf + 1
  /\ stdOut' = IF std # NoSink THEN std ELSE stdOut
  /\ errOut' = IF err # NoSink THEN err ELSE errOut
  /\ extraW' = ws
  /\ installed' = installed \cup ({std, err} \ {NoSink}) \cup {ws[i] : i \in 1..Len(ws)}
  /\ UNCHANGED <<rotationSink, sinkLog, sinkClosed>>
  /\ UNCHANGED <<retryMax, writeErrCount, writerErrs, swpc, swTargets, swNames, swMax, swAttempt,
                 swRead, swCalls, swOk, wcalls>>
  /\ UNCHANGED <<nonWriterVars, workVars>>

\* AddExtraWriter(name, w): appended, also when the name is already present
AddExtraWriter(x) ==
  /\ nconf < MaxConf
  /\ nconf' = nconf + 1
  /\ Len(extraW) < 2
  /\ extraW' = Append(extraW, x)
  /\ installed' = installed \cup {x}
  /\ UNCHANGED <<stdOut, errOut, rotationSink, sinkLog, sinkClosed>>
  /\ UNCHANGED <<retryMax, writeErrCount, writerErrs, swpc, swTargets, swNames, swMax, swAttempt,
                 swRead, swCalls, swOk, wcalls>>
  /\ UNCHANGED <<nonWriterVars, workVars>>

\* positions of the extras named x
ExtraAt(x) == {i \in 1..Len(extraW) : extraW[i] = x}

\* s without its i-th element
RemoveAt(s, i) == SubSeq(s, 1, i - 1) \o SubSeq(s, i + 1, Len(s))

\* the counters after a Close of the sink named n that is counted in both
BothCounted(n) == <<writeErrCount + 1, Inc(writerErrs, n)>>

\* RemoveExtraWriter(name): the first extra of that name is closed (ok: its
\* Close returns nil) and removed
RemoveExtraWriter(x, ok) ==
  /\ nconf < MaxConf
  /\ nconf' = nconf + 1
  /\ ExtraAt(x) # {}
  /\ LET idx == CHOOSE i \in ExtraAt(x) : \A j \in ExtraAt(x) : i <= j
         cnt == IF ok THEN <<writeErrCount, writerErrs>> ELSE BothCounted(x)
     IN /\ sinkClosed' = Inc(sinkClosed, x)
        /\ writeErrCount' = cnt[1]
        /\ writerErrs' = cnt[2]
        /\ extraW' = RemoveAt(extraW, idx)
  /\ UNCHANGED <<stdOut, errOut, rotationSink, sinkLog>>
  /\ UNCHANGED <<retryMax, swpc, swTargets, swNames, swMax, swAttempt, swRead, swCalls, swOk,
                 wcalls, installed>>
  /\ UNCHANGED <<nonWriterVars, workVars>>

\* SetRotation(cfg): the previous rotation writer is closed (ok: its Close
\* returns nil); with cfg.Enable a new writer is made
SetRotation(enable, ok) ==
  /\ nconf < MaxConf
  /\ nconf' = nconf + 1
  /\ enable => SinkRot2 \notin installed
  /\ LET had == rotationSink # NoSink
         cnt == IF had /\ ~ok THEN BothCounted(rotationSink)
                ELSE <<writeErrCount, writerErrs>>
     IN /\ sinkClosed' = IF had THEN Inc(sinkClosed, rotationSink) ELSE sinkClosed
        /\ writeErrCount' = cnt[1]
        /\ writerErrs' = cnt[2]
  /\ rotationSink' = IF enable THEN SinkRot2 ELSE NoSink
  /\ installed' = IF enable THEN installed \cup {SinkRot2} ELSE installed
  /\ UNCHANGED <<stdOut, errOut, extraW, sinkLog>>
  /\ UNCHANGED <<retryMax, swpc, swTargets, swNames, swMax, swAttempt, swRead, swCalls, swOk,
                 wcalls>>
  /\ UNCHANGED <<nonWriterVars, workVars>>

\* the names closeAllWriters counts under, in the order of CloseTargets
CloseNames ==
  <<StdoutName, StderrName>> \o extraW
  \o (IF rotationSink # NoSink THEN <<rotationSink>> ELSE <<>>)

RECURSIVE CountFailed(_, _, _, _)
\* "if err := closer.Close(); err != nil { l.incWriterErr(name) }" for each
\* target; F holds the sinks whose Close returns an error
CountFailed(cnt, targets, names, F) ==
  IF targets = <<>> THEN cnt
  ELSE CountFailed(IF Head(targets) \in F THEN Inc(cnt, Head(names)) ELSE cnt,
                   Tail(targets), Tail(names), F)

\* waiter: closeAllWriters in which the Close of the sinks of F fails, then
\* "close(done)"
WaiterCloseWritersErr(F) ==
  /\ waiterPc = "writers"
  /\ F # {}
  /\ F \subseteq {CloseTargets[i] : i \in 1..Len(CloseTargets)}
  /\ sinkClosed' = CloseEach(sinkClosed, CloseTargets)
  /\ writerErrs' = CountFailed(writerErrs, CloseTargets, CloseNames, F)
  /\ extraW' = <<>>
  /\ rotationSink' = NoSink
  /\ writersCloseRuns' = writersCloseRuns + 1
  /\ done' = TRUE
  /\ waiterPc' = "end"
  /\ UNCHANGED <<stdOut, errOut, sinkLog>>
  /\ UNCHANGED <<cpc, ctimeout, cres, cvia, cafterOk, hookCloseRuns>>
  /\ UNCHANGED <<retryMax, writeErrCount, swpc, swTargets, swNames, swMax, swAttempt, swRead,
                 swCalls, swOk, wcalls, nconf, installed>>
  /\ UNCHANGED <<cfgVars, auxVars, dispatchVars, ringVars, lvlVars, chanVars, statVars, hookVars, prodVars,
                 recVars, workVars>>

(* ---------------------------------------------------------------------- *)
(* Specifications.                                                        *)
(* ---------------------------------------------------------------------- *)
NoHooks == <<FALSE, FALSE>>
AsyncHooks == <<TRUE, TRUE>>

\* Spec: two producers racing with each other, with the workers and with one
\* shutdown call that waits without a timeout.
Init ==
  InitWith(AllModes, {1, MaxBuf}, {1, MaxBatch}, {{"w1"}, {"w1", "w2"}}, {NoHooks},
           {SinkErr}, {SinkRot}, {<<SinkExtra>>}, {INFO})

Next ==
  \/ \E p \in Producers : Log(p, INFO)
  \/ \E p \in Producers : EnqCheck(p)
  \/ \E p \in Producers : EnqSend(p)
  \/ \E p \in Producers : EnqEvict(p)
  \/ \E p \in Producers : EnqRetry(p)
  \/ \E w \in Workers : WorkerRecv(w)
  \/ \E w \in Workers : WorkerClosed(w)
  \/ \E w \in Workers : TimerFire(w)
  \/ \E w \in Workers : WorkerProcess(w)
  \/ CloseCall("c1", FALSE)
  \/ CloseTry("c1")
  \/ CloseChan("c1")
  \/ CloseWaitDone("c1")
  \/ WaiterWg
  \/ WaiterCloseHook
  \/ WaiterCloseWriters

Spec == Init /\ [][Next]_vars

\* SpecClose: several Close/CloseDetached callers on one logger with an
\* asynchronous hook runner.
InitClose ==
  InitWith({Blocking}, {MaxBuf}, {MaxBatch}, {{"w1"}}, {AsyncHooks},
           {SinkErr}, {SinkRot}, {<<SinkExtra>>}, {INFO})

NextClose ==
  \/ Log("p1", INFO)
  \/ EnqCheck("p1")
  \/ EnqSend("p1")
  \/ WorkerRecv("w1")
  \/ WorkerClosed("w1")
  \/ TimerFire("w1")
  \/ WorkerProcess("w1")
  \/ HookRun
  \/ HookExit
  \/ \E c \in Closers, tmo \in BOOLEAN : CloseCall(c, tmo)
  \/ \E c \in Closers : CloseTry(c)
  \/ \E c \in Closers : CloseChan(c)
  \/ \E c \in Closers : CloseWaitDone(c)
  \/ \E c \in Closers : CloseWaitTimeout(c)
  \/ WaiterWg
  \/ WaiterCloseHook
  \/ WaiterHookWait
  \/ WaiterCloseWriters

SpecClose == InitClose /\ [][NextClose]_vars

\* SpecRoute: one producer logging at every severity on a drop-oldest logger,
\* with the full sink set or with one sink for both primaries, and one
\* shutdown without timeout.
InitRoute ==
  \/ InitWith({NonBlockingDropOldest}, {1}, {MaxBatch}, {{"w1"}}, {NoHooks},
              {SinkErr}, {SinkRot}, {<<SinkExtra>>}, {DEBUG})
  \/ InitWith({NonBlockingDropOldest}, {1}, {MaxBatch}, {{"w1"}}, {NoHooks},
              {SinkOut}, {NoSink}, {<<>>}, {DEBUG})

\* the severities logged: both sides of the WARN threshold and its neighbours
RouteLevels == INFO..FATAL

NextRoute ==
  \/ \E lv \in RouteLevels : Log("p1", lv)
  \/ EnqCheck("p1")
  \/ EnqSend("p1")
  \/ EnqEvict("p1")
  \/ EnqRetry("p1")
  \/ WorkerRecv("w1")
  \/ WorkerClosed("w1")
  \/ TimerFire("w1")
  \/ WorkerProcess("w1")
  \/ CloseCall("c1", FALSE)
  \/ CloseTry("c1")
  \/ CloseChan("c1")
  \/ CloseWaitDone("c1")
  \/ WaiterWg
  \/ WaiterCloseHook
  \/ WaiterCloseWriters

SpecRoute == InitRoute /\ [][NextRoute]_vars

\* SpecLevel: log calls at every severity racing with one SetMinLevel call.
InitLevel ==
  InitWith({Blocking}, {MaxBuf}, {MaxBatch}, {{"w1"}}, {NoHooks},
           {SinkErr}, {SinkRot}, {<<SinkExtra>>}, {INFO})

NextLevel ==
  \/ \E lv \in Levels : Log("p1", lv)
  \/ EnqCheck("p1")
  \/ EnqSend("p1")
  \/ WorkerRecv("w1")
  \/ TimerFire("w1")
  \/ WorkerProcess("w1")
  \/ \E L \in Levels : SetMinLevelBegin(L)
  \/ SetMinLevelStore

SpecLevel == InitLevel /\ [][NextLevel]_vars

\* SpecLive: shutdown under fair scheduling of the goroutines the logger
\* owns and of the callers that are inside Close.
InitLive ==
  InitWith({Blocking}, {MaxBuf}, {MaxBatch}, {{"w1"}}, {AsyncHooks},
           {SinkErr}, {SinkRot}, {<<SinkExtra>>}, {INFO})

LiveClosers == {"c1", "c2"}

\* a log call of the liveness specification, which makes at most MaxLive calls
LogLive(p, lv) == calls < MaxLive /\ Log(p, lv)

NextLive ==
  \/ LogLive("p1", INFO)
  \/ EnqCheck("p1")
  \/ EnqSend("p1")
  \/ WorkerRecv("w1")
  \/ WorkerClosed("w1")
  \/ TimerFire("w1")
  \/ WorkerProcess("w1")
  \/ HookRun
  \/ HookExit
  \/ \E c \in LiveClosers, tmo \in BOOLEAN : CloseCall(c, tmo)
  \/ \E c \in LiveClosers : CloseTry(c)
  \/ \E c \in LiveClosers : CloseChan(c)
  \/ \E c \in LiveClosers : CloseWaitDone(c)
  \/ \E c \in LiveClosers : CloseWaitTimeout(c)
  \/ WaiterWg
  \/ WaiterCloseHook
  \/ WaiterHookWait
  \/ WaiterCloseWriters

\* goroutines that are runnable run: the worker, the hook runner, the waiter,
\* a caller inside closeLogger, and the runtime timer of time.After
Fairness ==
  /\ WF_vars(WorkerRecv("w1"))
  /\ WF_vars(WorkerClosed("w1"))
  /\ WF_vars(WorkerProcess("w1"))
  /\ WF_vars(HookRun)
  /\ WF_vars(HookExit)
  /\ WF_vars(WaiterWg)
  /\ WF_vars(WaiterCloseHook)
  /\ WF_vars(WaiterHookWait)
  /\ WF_vars(WaiterCloseWriters)
  /\ \A c \in LiveClosers :
        /\ WF_vars(CloseTry(c))
        /\ WF_vars(CloseChan(c))
        /\ WF_vars(CloseWaitDone(c))
        /\ WF_vars(CloseWaitTimeout(c))

SpecLive == InitLive /\ [][NextLive]_vars /\ Fairness

\* Hook dispatch: synchronous hooks, with and without a per-hook timeout; the
\* runner is the goroutine inside runHooks, SetHooks runs beside it.
SyncHooks == <<FALSE, TRUE>>
HookOutcomes == {"ok", ErrHook, ErrHookPanic}
Dispatchers == {"r1"}

InitHooks ==
  /\ InitPipeline({Blocking}, {1}, {1}, {{"w1"}}, {SyncHooks}, {SinkErr}, {SinkRot},
                  {<<SinkExtra>>}, {INFO})
  /\ InitDispatch(BOOLEAN)
  /\ InitRing({defaultHookErrMax})
  /\ InitWriter({0})
  /\ InitDefaults

NextHooks ==
  \/ \E R \in Dispatchers : RunHooksBegin(R, MaxEv)
  \/ \E R \in Dispatchers : \E o \in HookOutcomes : HookCallSync(R, o)
  \/ \E R \in Dispatchers : HookLaunch(R)
  \/ \E R \in Dispatchers : \E o \in {"ok", ErrHook} : HookGoReturn(R, o)
  \/ \E R \in Dispatchers : HookGoPanic(R)
  \/ \E R \in Dispatchers : HookTimerFires(R)
  \/ \E R \in Dispatchers : HookSelect(R)
  \/ \E R \in Dispatchers : HookTimedOut(R)
  \/ \E R \in Dispatchers : HookCompleted(R)
  \/ \E x \in abandoned : AbandonedReturn(x)
  \/ \E x \in abandoned : AbandonedPanic(x)
  \/ \E R \in Dispatchers : RecordAppend(R)
  \/ \E hs \in HookLists : SetHooks(hs)

SpecHooks == InitHooks /\ [][NextHooks]_vars

\* Restart of the hook runner pool: asynchronous hooks with one or two
\* runners, one shutdown, and SetHooks called at any moment.
AsyncPool(n) == <<TRUE, TRUE, n>>
AsyncIdle(n) == <<TRUE, FALSE, n>>

InitRestart ==
  InitWith({Blocking}, {1}, {MaxBatch}, {{"w1"}}, {AsyncPool(1), AsyncPool(2), AsyncIdle(2)},
           {SinkErr}, {SinkRot}, {<<SinkExtra>>}, {INFO})

NextRestart ==
  \/ Log("p1", INFO)
  \/ EnqCheck("p1")
  \/ EnqSend("p1")
  \/ WorkerRecv("w1")
  \/ WorkerClosed("w1")
  \/ TimerFire("w1")
  \/ WorkerProcess("w1")
  \/ HookRun
  \/ HookExit
  \/ \E hs \in HookLists : SetHooks(hs)
  \/ CloseCall("c1", FALSE)
  \/ CloseTry("c1")
  \/ CloseChan("c1")
  \/ CloseWaitDone("c1")
  \/ WaiterWg
  \/ WaiterCloseHook
  \/ WaiterHookWait
  \/ WaiterCloseWriters

SpecRestart == InitRestart /\ [][NextRestart]_vars

\* Overload: two producers on a non-blocking logger whose worker and sinks
\* may make no progress at all; only the producers' own steps are fair.
InitOverload ==
  InitWith({NonBlockingDropNew, NonBlockingDropOldest}, {1, MaxBuf}, {MaxBatch}, {{"w1"}},
           {NoHooks}, {SinkErr}, {SinkRot}, {<<SinkExtra>>}, {INFO})

EnqueueStep(p) == EnqCheck(p) \/ EnqSend(p) \/ EnqEvict(p) \/ EnqRetry(p)

NextOverload ==
  \/ \E p \in Producers : Log(p, INFO)
  \/ \E p \in Producers : EnqCheck(p)
  \/ \E p \in Producers : EnqSend(p)
  \/ \E p \in Producers : EnqEvict(p)
  \/ \E p \in Producers : EnqRetry(p)
  \/ WorkerRecv("w1")
  \/ TimerFire("w1")
  \/ WorkerProcess("w1")

\* a producer inside enqueue is running code of its own: it takes its steps
ProducersRun == \A p \in Producers : WF_vars(EnqueueStep(p))

SpecOverload == InitOverload /\ [][NextOverload]_vars /\ ProducersRun

\* Retries: the worker writes records to the sink set, any write may fail,
\* and SetRetryPolicy runs beside it.
RetryValues == (-1)..MaxRetry

InitRetry ==
  /\ InitPipeline({Blocking}, {1}, {1}, {{"w1"}}, {NoHooks}, {SinkErr}, {NoSink}, {<<>>}, {INFO})
  /\ InitDispatch({FALSE})
  /\ InitRing({defaultHookErrMax})
  /\ InitWriter(RetryValues)
  /\ InitDefaults

NextRetry ==
  \/ \E isError \in BOOLEAN : WriteToAllBegin("w1", isError, MaxRec)
  \/ SafeWriteBegin("w1")
  \/ \E ok \in BOOLEAN : SafeWriteTry("w1", ok)
  \/ SafeWriteCount("w1")
  \/ \E n \in RetryValues : SetRetryPolicy(n)

SpecRetry == InitRetry /\ [][NextRetry]_vars

\* The sink set: the worker writes with failures, the sink set is
\* reconfigured, then one Close shuts the logger down; any Close of a sink
\* may fail.
CloseNotCalled == cpc["c1"] = "idle" /\ cres["c1"] = "none"

InitSinks ==
  /\ InitPipeline({Blocking}, {1}, {1}, {{"w1"}}, {NoHooks}, {SinkErr}, {SinkRot},
                  {<<SinkExtra>>}, {INFO})
  /\ InitDispatch({FALSE})
  /\ InitRing({defaultHookErrMax})
  /\ InitWriter({0})
  /\ InitDefaults

NextSinks ==
  \/ \E isError \in BOOLEAN : WriteToAllBegin("w1", isError, MaxWrites)
  \/ SafeWriteBegin("w1")
  \/ \E ok \in BOOLEAN : SafeWriteTry("w1", ok)
  \/ SafeWriteCount("w1")
  \/ /\ CloseNotCalled
     /\ \E std \in {NoSink, SinkAdded}, ws \in {<<>>, <<SinkExtra>>} : SetOutputs(std, NoSink, ws)
  \/ CloseNotCalled /\ AddExtraWriter(SinkAdded)
  \/ CloseNotCalled /\ \E x \in {SinkExtra, SinkAdded}, ok \in BOOLEAN : RemoveExtraWriter(x, ok)
  \/ CloseNotCalled /\ \E enable, ok \in BOOLEAN : SetRotation(enable, ok)
  \/ CloseCall("c1", FALSE)
  \/ CloseTry("c1")
  \/ CloseChan("c1")
  \/ CloseWaitDone("c1")
  \/ WorkerClosed("w1")
  \/ WaiterWg
  \/ WaiterCloseHook
  \/ WaiterCloseWriters
  \/ \E F \in SUBSET Sinks : WaiterCloseWritersErr(F)

SpecSinks == InitSinks /\ [][NextSinks]_vars

\* The failure ring: two goroutines inside runHooks record failures into a
\* ring of small capacity (0 stands for an unset capacity field).
RingCaps == {0} \cup (1..MaxRing)

InitRingSpec ==
  /\ InitPipeline({Blocking}, {1}, {1}, {{"w1"}}, {SyncHooks}, {SinkErr}, {SinkRot},
                  {<<SinkExtra>>}, {INFO})
  /\ InitDispatch({FALSE})
  /\ InitRing(RingCaps)
  /\ InitWriter({0})
  /\ InitDefaults

NextRing ==
  \/ \E R \in Runners : RunHooksBegin(R, MaxRec)
  \/ \E R \in Runners : \E o \in HookOutcomes : HookCallSync(R, o)
  \/ \E R \in Runners : RecordAppend(R)

SpecRing == InitRingSpec /\ [][NextRing]_vars

\* SpecOrder: two producers and a single worker in every queue mode, with one
\* shutdown call; the order ghosts are kept.
InitOrder ==
  /\ InitPipeline(AllModes, {1, MaxBuf}, {1, MaxBatch}, {{"w1"}}, {NoHooks}, {SinkErr},
                  {SinkRot}, {<<SinkExtra>>}, {INFO})
  /\ InitDispatch({FALSE})
  /\ InitRing({defaultHookErrMax})
  /\ InitWriter({0})
  /\ traceOrder = TRUE
  /\ InitTimer({Second})
  /\ InitGlobal
  /\ InitFormatter({"TextFormatter"})
  /\ InitMask({<<>>}, {<<>>}, {<<>>}, {FALSE})

NextOrder ==
  \/ \E p \in Producers : Log(p, INFO)
  \/ \E p \in Producers : EnqCheck(p)
  \/ \E p \in Producers : EnqSend(p)
  \/ \E p \in Producers : EnqEvict(p)
  \/ \E p \in Producers : EnqRetry(p)
  \/ WorkerRecv("w1")
  \/ WorkerClosed("w1")
  \/ TimerFire("w1")
  \/ WorkerProcess("w1")
  \/ CloseCall("c1", FALSE)
  \/ CloseTry("c1")
  \/ CloseChan("c1")
  \/ CloseWaitDone("c1")
  \/ WaiterWg
  \/ WaiterCloseHook
  \/ WaiterCloseWriters

SpecOrder == InitOrder /\ [][NextOrder]_vars

\* SpecBatch: one producer and one worker while SetBatchConfig is called at
\* run time with any size and maximum wait.
BatchSizes == 0..(MaxBatch + 1)
WaitValues == 0..MaxWait

InitBatch ==
  /\ InitPipeline({Blocking}, {MaxBuf}, {1, MaxBatch + 1}, {{"w1"}}, {NoHooks}, {SinkErr},
                  {NoSink}, {<<>>}, {INFO})
  /\ InitDispatch({FALSE})
  /\ InitRing({defaultHookErrMax})
  /\ InitWriter({0})
  /\ traceOrder = FALSE
  /\ InitTimer({1, Second})
  /\ InitGlobal
  /\ InitFormatter({"TextFormatter"})
  /\ InitMask({<<>>}, {<<>>}, {<<>>}, {FALSE})

NextBatch ==
  \/ Log("p1", INFO)
  \/ EnqCheck("p1")
  \/ EnqSend("p1")
  \/ WorkerRecv("w1")
  \/ TimerFire("w1")
  \/ TimerIdle("w1")
  \/ WorkerProcess("w1")
  \/ \E size \in BatchSizes, wait \in WaitValues : SetBatchBegin(size, wait)
  \/ SetBatchStoreWait

SpecBatch == InitBatch /\ [][NextBatch]_vars

\* SpecReinit: two callers of ReinitGlobalLogger, each calling it up to
\* MaxReinit times, in any interleaving.
InitReinit ==
  /\ InitPipeline({Blocking}, {1}, {1}, {{"w1"}}, {NoHooks}, {SinkErr}, {NoSink}, {<<>>}, {INFO})
  /\ InitDispatch({FALSE})
  /\ InitRing({defaultHookErrMax})
  /\ InitWriter({0})
  /\ traceOrder = FALSE
  /\ InitTimer({Second})
  /\ InitGlobal
  /\ InitFormatter({"TextFormatter"})
  /\ InitMask({<<>>}, {<<>>}, {<<>>}, {FALSE})

NextReinit ==
  \/ \E c \in Reiniters : ReinitRead(c)
  \/ \E c \in Reiniters : ReinitStart(c)
  \/ \E c \in Reiniters : ReinitSwap(c)
  \/ \E c \in Reiniters : ReinitClose(c)

SpecReinit == InitReinit /\ [][NextReinit]_vars

\* SpecCount: one producer and one worker on a logger whose formatter can
\* return an error, in every queue mode, with one shutdown call.
InitCount ==
  /\ InitPipeline(AllModes, {1, MaxBuf}, {1, MaxBatch}, {{"w1"}}, {NoHooks}, {SinkErr},
                  {SinkRot}, {<<SinkExtra>>}, {INFO})
  /\ InitDispatch({FALSE})
  /\ InitRing({defaultHookErrMax})
  /\ InitWriter({0})
  /\ traceOrder = FALSE
  /\ InitTimer({Second})
  /\ InitGlobal
  /\ InitFormatter({"TextFormatter", "JSONFormatter"})
  /\ InitMask({<<>>}, {<<>>}, {<<>>}, {FALSE})

NextCount ==
  \/ Log("p1", INFO)
  \/ EnqCheck("p1")
  \/ EnqSend("p1")
  \/ EnqEvict("p1")
  \/ EnqRetry("p1")
  \/ WorkerRecv("w1")
  \/ WorkerClosed("w1")
  \/ TimerFire("w1")
  \/ WorkerProcess("w1")
  \/ CloseCall("c1", FALSE)
  \/ CloseTry("c1")
  \/ CloseChan("c1")
  \/ CloseWaitDone("c1")
  \/ WaiterWg
  \/ WaiterCloseHook
  \/ WaiterCloseWriters

SpecCount == InitCount /\ [][NextCount]_vars

\* SpecDefault: the logger InitLogger builds (blocking, one worker, batch
\* size 1, no formatter assigned), two producers and one shutdown call.
InitDefault ==
  /\ InitPipeline({Blocking}, {MaxBuf}, {1}, {{"w1"}}, {NoHooks}, {SinkErr}, {NoSink}, {<<>>},
                  {DEBUG, INFO})
  /\ InitDispatch({FALSE})
  /\ InitRing({defaultHookErrMax})
  /\ InitWriter({0})
  /\ traceOrder = FALSE
  /\ InitTimer({Second})
  /\ InitGlobal
  /\ InitFormatter({"nil"})
  /\ InitMask({<<>>}, {<<>>}, {<<>>}, {FALSE})

NextDefault ==
  \/ \E p \in Producers, lv \in {INFO, WARN} : Log(p, lv)
  \/ \E p \in Producers : EnqCheck(p)
  \/ \E p \in Producers : EnqSend(p)
  \/ WorkerRecv("w1")
  \/ WorkerClosed("w1")
  \/ WorkerFormatPanics("w1")
  \/ CloseCall("c1", FALSE)
  \/ CloseTry("c1")
  \/ CloseChan("c1")

SpecDefault == InitDefault /\ [][NextDefault]_vars

\* SpecMask: applyMasking on every message of up to MaxMsg tokens, with up
\* to two regex rules and at most one field rule, in both format modes.
RegexRuleSet ==
  {[pat |-> <<"s">>, rep |-> <<"*">>],
   [pat |-> <<"*">>, rep |-> <<"s">>],
   [pat |-> <<"s">>, rep |-> <<"s", "s">>]}
RegexRuleLists ==
  {<<>>} \cup {<<r>> : r \in RegexRuleSet} \cup {<<r, q>> : r \in RegexRuleSet, q \in RegexRuleSet}
FieldRuleLists ==
  {<<>>, <<[keys |-> {"p"}, rep |-> "*"]>>, <<[keys |-> {"p"}, rep |-> "s"]>>}

InitMaskSpec ==
  /\ InitPipeline({Blocking}, {1}, {1}, {{"w1"}}, {NoHooks}, {SinkErr}, {NoSink}, {<<>>}, {INFO})
  /\ InitDispatch({FALSE})
  /\ InitRing({defaultHookErrMax})
  /\ InitWriter({0})
  /\ traceOrder = FALSE
  /\ InitTimer({Second})
  /\ InitGlobal
  /\ InitFormatter({"TextFormatter"})
  /\ InitMask(Messages \ {<<>>}, RegexRuleLists, FieldRuleLists, BOOLEAN)

NextMask ==
  \/ MaskOnce
  \/ MaskTwice

SpecMask == InitMaskSpec /\ [][NextMask]_vars

(* ---------------------------------------------------------------------- *)
(* Drop-oldest ingestion under contention: two producers on a small       *)
(* queue, one worker that may or may not keep up.                         *)
(* ---------------------------------------------------------------------- *)
InitEvict ==
  /\ InitPipeline({NonBlockingDropOldest}, {1, MaxBuf}, {1, MaxBatch}, {{"w1"}}, {NoHooks}, {SinkErr},
                  {SinkRot}, {<<SinkExtra>>}, {INFO})
  /\ InitDispatch({FALSE})
  /\ InitRing({defaultHookErrMax})
  /\ InitWriter({0})
  /\ traceOrder = TRUE
  /\ InitTimer({Second})
  /\ InitGlobal
  /\ InitFormatter({"TextFormatter"})
  /\ InitMask({<<>>}, {<<>>}, {<<>>}, {FALSE})

NextEvict ==
  \/ \E p \in Producers : Log(p, INFO)
  \/ \E p \in Producers : EnqCheck(p)
  \/ \E p \in Producers : EnqSend(p)
  \/ \E p \in Producers : EnqEvict(p)
  \/ \E p \in Producers : EnqRetry(p)
  \/ WorkerRecv("w1")
  \/ TimerFire("w1")
  \/ WorkerProcess("w1")

SpecEvict == InitEvict /\ [][NextEvict]_vars


(* ---------------------------------------------------------------------- *)
(* Bursts: one worker, a fixed batch size, records arriving faster than   *)
(* the maximum wait (the timer never expires), then Close.                *)
(* ---------------------------------------------------------------------- *)
InitBurst ==
  InitWith({Blocking, NonBlockingDropNew}, {1, MaxBuf}, 1..MaxBatch, {{"w1"}}, {NoHooks},
           {SinkErr}, {SinkRot}, {<<SinkExtra>>}, {INFO})

NextBurst ==
  \/ \E p \in Producers : Log(p, INFO)
  \/ \E p \in Producers : EnqCheck(p)
  \/ \E p \in Producers : EnqSend(p)
  \/ WorkerRecv("w1")
  \/ WorkerClosed("w1")
  \/ WorkerProcess("w1")
  \/ CloseCall("c1", FALSE)
  \/ CloseTry("c1")
  \/ CloseChan("c1")
  \/ CloseWaitDone("c1")
  \/ WaiterWg
  \/ WaiterCloseHook
  \/ WaiterCloseWriters

SpecBurst == InitBurst /\ [][NextBurst]_vars

(* ---------------------------------------------------------------------- *)
(* The maximum-wait timer of one worker: expiries of the runtime timer,   *)
(* the receive on timer.C, and the stop/drain/reset after a size flush.   *)
(* ---------------------------------------------------------------------- *)
InitTimerSpec ==
  InitWith({Blocking}, {MaxBuf}, {1, MaxBatch}, {{"w1"}}, {NoHooks},
           {SinkErr}, {NoSink}, {<<>>}, {INFO})

NextTimer ==
  \/ Log("p1", INFO)
  \/ EnqCheck("p1")
  \/ EnqSend("p1")
  \/ WorkerRecv("w1")
  \/ TimerExpire("w1")
  \/ TimerRecv("w1")
  \/ WorkerProcess("w1")

SpecTimer == InitTimerSpec /\ [][NextTimer]_vars

(* ---------------------------------------------------------------------- *)
(* Formatter failures inside a batch: the structured formatter may fail   *)
(* on any record, batches hold up to MaxBatch records.                    *)
(* ---------------------------------------------------------------------- *)
InitFormat ==
  /\ InitPipeline({Blocking}, {MaxBuf}, {MaxBatch}, {{"w1"}}, {NoHooks}, {SinkErr},
                  {SinkRot}, {<<SinkExtra>>}, {INFO})
  /\ InitDispatch({FALSE})
  /\ InitRing({defaultHookErrMax})
  /\ InitWriter({0})
  /\ traceOrder = TRUE
  /\ InitTimer({Second})
  /\ InitGlobal
  /\ InitFormatter({"JSONFormatter"})
  /\ InitMask({<<>>}, {<<>>}, {<<>>}, {FALSE})

NextFormat ==
  \/ \E lv \in {INFO, WARN} : Log("p1", lv)
  \/ EnqCheck("p1")
  \/ EnqSend("p1")
  \/ WorkerRecv("w1")
  \/ WorkerClosed("w1")
  \/ TimerFire("w1")
  \/ WorkerProcess("w1")
  \/ CloseCall("c1", FALSE)
  \/ CloseTry("c1")
  \/ CloseChan("c1")
  \/ CloseWaitDone("c1")
  \/ WaiterWg
  \/ WaiterCloseHook
  \/ WaiterCloseWriters

SpecFormat == InitFormat /\ [][NextFormat]_vars

(* ---------------------------------------------------------------------- *)
(* Failing sinks: a primary, a rotation sink and an extra sink, each      *)
(* write free to fail, over several writeToAll calls of one worker.       *)
(* ---------------------------------------------------------------------- *)
InitFail ==
  /\ InitPipeline({Blocking}, {1}, {1}, {{"w1"}}, {NoHooks}, {SinkErr}, {SinkRot},
                  {<<SinkExtra>>}, {INFO})
  /\ InitDispatch({FALSE})
  /\ InitRing({defaultHookErrMax})
  /\ InitWriter({0, MaxRetry})
  /\ InitDefaults

NextFail ==
  \/ \E isError \in BOOLEAN : WriteToAllBegin("w1", isError, MaxRec)
  \/ SafeWriteBegin("w1")
  \/ \E ok \in BOOLEAN : SafeWriteTry("w1", ok)
  \/ SafeWriteCount("w1")

SpecFail == InitFail /\ [][NextFail]_vars

(* ---------------------------------------------------------------------- *)
(* incWriterErr: goroutines count the failures of sinks concurrently, the  *)
(* counters of the names not yet created.                                  *)
(* ---------------------------------------------------------------------- *)
\* calls of incWriterErr each goroutine makes
MaxInc == 2

\* the names the failures are counted under
CountNames == {StdoutName, StderrName}

\* the pipeline, hook and sink state incWriterErr leaves alone
nonCountVars == <<cfgVars, timerVars, fmtVars, globalVars, maskVars, lvlVars, chanVars, statVars,
                  outVars, hookVars, prodVars, recVars, workVars, closeVars, dispatchVars,
                  ringVars, retryMax, writeErrCount, swpc, swTargets, swNames, swMax,
                  swAttempt, swRead, swCalls, swOk, wcalls, nconf, installed, fmtCalls>>

\* "l.writerErrs.Store(name, val.(int64)+1)": the value the call loaded, plus
\* one, written back over whatever the map holds by then
StoreSeenPlusOne(cnt, seen) == seen + 1

\* "v.Add(1)", "p.Add(1)": the atomic increment of the counter the map holds
AtomicAdd(cnt, seen) == cnt + 1

\* "if c, ok := l.writerErrs.Load(name); ok": a name is in the map once its
\* counter was created, and a created counter starts at 1
IncLoad(g, n) ==
  /\ errCalls.pc[g] = "idle"
  /\ errCalls.calls[g] < MaxInc
  /\ errCalls' = [errCalls EXCEPT !.pc[g] = IF writerErrs[n] > 0 THEN "add" ELSE "create",
                                  !.name[g] = n,
                                  !.seen[g] = writerErrs[n],
                                  !.calls[g] = @ + 1]
  /\ UNCHANGED <<writerErrs, nonCountVars>>

\* "ai.Store(1); if prev, loaded := l.writerErrs.LoadOrStore(name, ai); loaded"
IncLoadOrStore(g) ==
  /\ errCalls.pc[g] = "create"
  /\ LET n == errCalls.name[g] IN
       IF writerErrs[n] = 0
         THEN /\ writerErrs' = [writerErrs EXCEPT ![n] = 1]
              /\ errCalls' = [errCalls EXCEPT !.pc[g] = "idle", !.done[n] = @ + 1]
         ELSE /\ errCalls' = [errCalls EXCEPT !.pc[g] = "add",
                                              !.seen[g] = writerErrs[n],
                                              !.raced = @ + 1]
              /\ UNCHANGED writerErrs
  /\ UNCHANGED nonCountVars

\* "v.Add(1); return" and "p.Add(1)" on the counter found
IncAdd(g) ==
  /\ errCalls.pc[g] = "add"
  /\ LET n == errCalls.name[g] IN
       /\ writerErrs' = [writerErrs EXCEPT ![n] = AtomicAdd(@, errCalls.seen[g])]
       /\ errCalls' = [errCalls EXCEPT !.pc[g] = "idle", !.done[n] = @ + 1]
  /\ UNCHANGED nonCountVars

InitErrCount ==
  /\ InitPipeline({Blocking}, {1}, {1}, {{"w1"}}, {NoHooks}, {SinkErr}, {SinkRot},
                  {<<SinkExtra>>}, {INFO})
  /\ InitDispatch({FALSE})
  /\ InitRing({defaultHookErrMax})
  /\ InitWriter({0})
  /\ InitDefaults

NextErrCount ==
  \/ \E g \in Incrementers, n \in CountNames : IncLoad(g, n)
  \/ \E g \in Incrementers : IncLoadOrStore(g)
  \/ \E g \in Incrementers : IncAdd(g)

SpecErrCount == InitErrCount /\ [][NextErrCount]_vars

(* ---------------------------------------------------------------------- *)
(* The format mode: SetJSONFormat against the loop body of processBatch.   *)
(* ---------------------------------------------------------------------- *)
\* the state SetJSONFormat and the two reads of processBatch leave alone
nonFmtVars == <<cfgVars, timerVars, globalVars, errCalls, lvlVars, chanVars, statVars, outVars,
                hookVars, prodVars, recVars, workVars, closeVars, dispatchVars, ringVars,
                sinkVars, fmtErrCount, regexRules, jsonFieldRules, msgIn, msgOnce, msgTwice,
                mpc>>

\* "jsonMode := l.jsonFmtFlag.Load(); msg = l.applyMasking(msg, jsonMode)" and
\* "JSONMode: jsonMode" of the hook event
ProcessReadMode ==
  /\ fmtCalls.wpc = "idle"
  /\ fmtCalls.done < MaxRec
  /\ fmtCalls' = [fmtCalls EXCEPT !.wpc = "masked", !.mode = jsonMode]
  /\ UNCHANGED <<jsonMode, formatter, nonFmtVars>>

\* "formatter := l.formatter" under formatterMu and "formatter.Format(hookEv)"
ProcessFormat ==
  /\ fmtCalls.wpc = "masked"
  /\ fmtCalls' = [fmtCalls EXCEPT !.wpc = "idle", !.done = @ + 1,
                                  !.used = <<fmtCalls.mode, formatter>>]
  /\ UNCHANGED <<jsonMode, formatter, nonFmtVars>>

\* SetJSONFormat(enabled): "l.jsonFmtFlag.Store(enabled)"
SetJSONFormatStore(c, enabled) ==
  /\ fmtCalls.spc[c] = "idle"
  /\ fmtCalls.n < MaxConf
  /\ jsonMode' = enabled
  /\ fmtCalls' = [fmtCalls EXCEPT !.spc[c] = "stored", !.arg[c] = enabled, !.n = @ + 1]
  /\ UNCHANGED <<formatter, nonFmtVars>>

\* SetJSONFormat(enabled): "l.SetFormatter(&JSONFormatter{})" or
\* "l.SetFormatter(&TextFormatter{})", the assignment under formatterMu
SetJSONFormatSet(c) ==
  /\ fmtCalls.spc[c] = "stored"
  /\ formatter' = IF fmtCalls.arg[c] THEN "JSONFormatter" ELSE "TextFormatter"
  /\ fmtCalls' = [fmtCalls EXCEPT !.spc[c] = "idle"]
  /\ UNCHANGED <<jsonMode, nonFmtVars>>

InitMode ==
  /\ InitPipeline({Blocking}, {1}, {1}, {{"w1"}}, {NoHooks}, {SinkErr}, {SinkRot},
                  {<<SinkExtra>>}, {INFO})
  /\ InitDispatch({FALSE})
  /\ InitRing({defaultHookErrMax})
  /\ InitWriter({0})
  /\ InitDefaults

NextMode ==
  \/ ProcessReadMode
  \/ ProcessFormat
  \/ \E c \in Setters, enabled \in BOOLEAN : SetJSONFormatStore(c, enabled)
  \/ \E c \in Setters : SetJSONFormatSet(c)

SpecMode == InitMode /\ [][NextMode]_vars

(* ---------------------------------------------------------------------- *)
(* ResetDynamicConfig, and the hook list republished on an open logger.    *)
(* ---------------------------------------------------------------------- *)
\* ResetDynamicConfig(initial): the dynamic configuration and the fields
\* published from it are overwritten under dynConfig.mu; "l.hooks =
\* initial.Hooks" under hooksMu, and no call of startHookRunner
ResetDynamicConfig(initial) ==
  /\ ~crashed
  /\ sbpc = "idle"
  /\ cfgpc # "store"
  /\ dynMinLevel' = initial.MinLevel
  /\ minLevel' = initial.MinLevel
  /\ regexRules' = initial.RegexRules
  /\ jsonFieldRules' = initial.JSONFieldRules
  /\ retryMax' = initial.Retry
  /\ hooks' = initial.Hooks
  /\ hasHooks' = (initial.Hooks # <<>>)
  /\ dynBatch' = initial.Batch
  /\ batchSizeA' = initial.Batch[1]
  /\ batchWaitA' = initial.Batch[2]
  /\ UNCHANGED <<nonBlocking, dropOldest, bufCap, nworkers, hookAsync, hookQueue, initSinks,
                 traceOrder>>
  /\ UNCHANGED <<wwait, armed, timer, sbpc, sbCalls, flushConf, globalVars, countVars, fmtVars,
                 jsonMode, msgIn, msgOnce, msgTwice, mpc>>
  /\ UNCHANGED <<hookTimeoutOn, hookWorkers, rpc, rev, rsnap, ridx, rtimer, hgs, herr, rerr,
                 abandoned, crashed, evCount, calledOn, hooksAtBegin, dispatched, panicked,
                 timerFirst, doneFirst>>
  /\ UNCHANGED <<cfgpc, cfgArg, wpc, batch, bpos, wret>>
  /\ UNCHANGED <<writeErrCount, writerErrs, swpc, swTargets, swNames, swMax, swAttempt, swRead,
                 swCalls, swOk, wcalls, nconf, installed>>
  /\ UNCHANGED <<hookVars, ringVars, chanVars, statVars, outVars, prodVars, recVars, closeVars>>

\* the configurations ResetDynamicConfig is called with: the one of the
\* construction, with each hook list
InitialConfigs ==
  {[MinLevel |-> INFO, RegexRules |-> <<>>, JSONFieldRules |-> <<>>, Retry |-> 0,
    Hooks |-> hs, Batch |-> <<MaxBatch, Second>>] : hs \in {<<>>, <<"h1">>}}

\* SpecReset: an open logger in asynchronous hook mode, started with or
\* without hooks, whose hook list is republished by SetHooks and by
\* ResetDynamicConfig while records are processed.
InitReset ==
  InitWith({Blocking}, {MaxBuf}, {MaxBatch}, {{"w1"}}, {AsyncPool(1), AsyncIdle(1)},
           {SinkErr}, {SinkRot}, {<<SinkExtra>>}, {INFO})

NextReset ==
  \/ Log("p1", INFO)
  \/ EnqCheck("p1")
  \/ EnqSend("p1")
  \/ WorkerRecv("w1")
  \/ TimerFire("w1")
  \/ WorkerProcess("w1")
  \/ HookRun
  \/ \E hs \in {<<>>, <<"h1">>} : SetHooks(hs)
  \/ \E initial \in InitialConfigs : ResetDynamicConfig(initial)

SpecReset == InitReset /\ [][NextReset]_vars

\* SpecDeliver: one producer on a blocking or drop-oldest logger that is
\* never closed, one worker with its timer; the worker goroutine and the
\* runtime timer run whenever they can.
InitDeliver ==
  InitWith({Blocking, NonBlockingDropOldest}, {1, MaxBuf}, {MaxBatch}, {{"w1"}}, {NoHooks},
           {SinkErr}, {NoSink}, {<<>>}, {INFO})

NextDeliver ==
  \/ Log("p1", INFO)
  \/ EnqCheck("p1")
  \/ EnqSend("p1")
  \/ EnqEvict("p1")
  \/ EnqRetry("p1")
  \/ WorkerRecv("w1")
  \/ TimerExpire("w1")
  \/ TimerRecv("w1")
  \/ WorkerProcess("w1")

\* the worker takes a case of its select that stays ready and finishes a
\* flush it began (sinks and hooks return); an armed timer expires
WorkerRuns ==
  /\ WF_vars(WorkerRecv("w1"))
  /\ WF_vars(TimerRecv("w1"))
  /\ WF_vars(WorkerProcess("w1"))
  /\ WF_vars(TimerExpire("w1"))

SpecDeliver == InitDeliver /\ [][NextDeliver]_vars /\ WorkerRuns

(* ---------------------------------------------------------------------- *)
(* Properties.                                                            *)
(* ---------------------------------------------------------------------- *)
RECURSIVE Count(_, _)
\* occurrences of e in sequence s
Count(s, e) ==
  IF s = <<>> THEN 0
  ELSE (IF Head(s) = e THEN 1 ELSE 0) + Count(Tail(s), e)

RECURSIVE SumTo(_, _)
\* f[1] + ... + f[n]
SumTo(f, n) == IF n = 0 THEN 0 ELSE f[n] + SumTo(f, n - 1)

\* entries whose enqueue call has returned
Returned == {r \in Recs : encDone[r]}

\* C1: under every interleaving of enqueue calls and Close, no send is ever
\* attempted on a closed ingestion queue (no producer panics in enqueue).
C1_NoSendOnClosedQueue == \A p \in Producers : ppc[p] # "panic"

\* C2: while the logger is open, every enqueue call that has returned left
\* its record in exactly one of two outcomes: inserted into the queue exactly
\* once, or counted as dropped exactly once and recycled; and every increment
\* of the dropped counter belongs to exactly one record.
C2_EnqueueOneOutcome ==
  ~closed =>
    /\ \A r \in Returned :
          \/ ins[r] = 1 /\ selfDrop[r] = 0
          \/ ins[r] = 0 /\ selfDrop[r] = 1 /\ recycled[r] = 1 /\ evicted[r] = 0
    /\ \A r \in Recs : evicted[r] <= ins[r] /\ (evicted[r] = 1 => recycled[r] = 1)
    /\ droppedCount = SumTo(selfDrop, MaxRec) + SumTo(evicted, MaxRec)

\* C2 witness: on an open drop-oldest logger one call has inserted its record
\* and another, having lost the retry race, has dropped its own record.
C2_Witness ==
  /\ ~closed
  /\ dropOldest
  /\ \E r1, r2 \in Returned : ins[r1] = 1 /\ selfDrop[r2] = 1

\* the sinks of the sink set at construction
InitSinkSet ==
  {initSinks.std, initSinks.err}
  \cup (IF initSinks.rot # NoSink THEN {initSinks.rot} ELSE {})
  \cup {initSinks.extras[i] : i \in 1..Len(initSinks.extras)}

ErrorSeverities == {WARN, ERROR, FATAL}

\* the sinks the routing rule names for entry r
ExpectedSinks(r) ==
  {IF lvl[r] \in ErrorSeverities THEN initSinks.err ELSE initSinks.std}
  \cup (IF initSinks.rot # NoSink THEN {initSinks.rot} ELSE {})
  \cup {initSinks.extras[i] : i \in 1..Len(initSinks.extras)}

WrittenOnceToExpected(r) ==
  \A s \in Sinks : Count(sinkLog[s], r) = (IF s \in ExpectedSinks(r) THEN 1 ELSE 0)

WrittenNowhere(r) == \A s \in Sinks : Count(sinkLog[s], r) = 0

AllSinksClosed == \A s \in InitSinkSet : sinkClosed[s] >= 1

\* C3: after a Close call with no timeout has returned, every record that
\* enqueue accepted was either written exactly once to the primary sink its
\* severity selects, to the rotation sink and to each extra sink, or counted
\* as dropped exactly once; never both and never neither.
C3_WrittenOnceOrDroppedOnce ==
  (\E c \in Closers : cpc[c] = "ret" /\ ~ctimeout[c]) =>
    \A r \in Recs : ins[r] >= 1 =>
       \/ WrittenOnceToExpected(r) /\ evicted[r] + selfDrop[r] = 0
       \/ WrittenNowhere(r) /\ evicted[r] + selfDrop[r] = 1

\* C4: when the Close call that initiated the shutdown returns success, the
\* queue is empty, every worker's batch is empty and every record inserted
\* and not evicted has been handed to the writer stage.
C4_FinalDrain ==
  (\E c \in Closers : cvia[c] = "done") =>
    /\ queue = <<>>
    /\ \A w \in Workers : batch[w] = <<>>
    /\ \A r \in Recs : (ins[r] >= 1 /\ evicted[r] = 0) => handed[r] = 1

\* C4 witness: the initiating call returned success after a worker flushed a
\* pending batch in its final drain.
C4_Witness ==
  /\ \E c \in Closers : cvia[c] = "done"
  /\ \E w \in Workers : wret[w] = "final"
  /\ \E r \in Recs : handed[r] = 1

\* C5: every Close call that returns success returns only after all workers
\* have exited and every sink of the sink set has been closed.
C5_SuccessAfterShutdown ==
  \A c \in Closers : cres[c] = "ok" => AllWorkersExited /\ AllSinksClosed

\* C6: the ingestion queue is closed at most once, the hook-runner shutdown
\* and the sink closing run at most once, and every call made after a
\* successful Close returns success and changes no logger state.
C6_CloseIdempotent ==
  /\ [](chClosed <= 1 /\ hookCloseRuns <= 1 /\ writersCloseRuns <= 1
        /\ \A s \in Sinks : sinkClosed[s] <= 1)
  /\ [][\A c \in Closers :
          (cpc'[c] # cpc[c] /\ cafterOk'[c]) =>
             /\ cpc'[c] = "ret"
             /\ cres'[c] = "ok"
             /\ UNCHANGED loggerState]_vars

\* C6 witness: of three callers one lost the race for the closed flag while
\* the shutdown was running and one called after a success was returned, and
\* the queue, the hook runner and the sinks were each closed once.
C6_Witness ==
  /\ \E c \in Closers : cafterOk[c] /\ cres[c] = "ok"
  /\ \E c \in Closers : ~cafterOk[c] /\ cvia[c] = "early"
  /\ chClosed = 1 /\ hookCloseRuns = 1 /\ writersCloseRuns = 1

\* C7: a log call that begins once the closed flag is set returns its record
\* to the pool without inserting it, and after a Close call has returned
\* success no sink receives any further write.
C7_NoInsertNoWriteAfterClose ==
  /\ [](\A r \in 1..(nextRec - 1) :
          startClosed[r] => ins[r] = 0 /\ (encDone[r] => recycled[r] = 1))
  /\ [][AnyOk => sinkLog' = sinkLog]_vars

\* C8: a Close call with a positive timeout that waits for the shutdown
\* always returns, with success only once completion was signalled and with
\* the timeout error otherwise; and after a timeout error was reported the
\* shutdown still completes: the workers exit, the hook runner is stopped
\* and every sink is closed.
ShutdownComplete ==
  /\ AllWorkersExited
  /\ hookAlive = 0 /\ hookCh = "nil"
  /\ AllSinksClosed
  /\ done

C8_TimeoutBoundsOnlyTheWaiter ==
  /\ \A c \in LiveClosers :
        (cpc[c] \in {"try", "closeCh", "wait"} /\ ctimeout[c]) ~> (cpc[c] = "ret")
  /\ [][\A c \in LiveClosers :
          (cpc[c] = "wait" /\ cpc'[c] = "ret") =>
             \/ cres'[c] = "ok" /\ done
             \/ cres'[c] = "timeout" /\ ctimeout[c]]_vars
  /\ (\E c \in LiveClosers : cres[c] = "timeout") ~> ShutdownComplete

\* C8 witness: a call has returned the timeout error and the shutdown has
\* completed afterwards.
C8_Witness ==
  /\ \E c \in LiveClosers : cres[c] = "timeout"
  /\ ShutdownComplete
  /\ \E r \in Recs : handed[r] = 1

LogTookEntry ==
  /\ nextRec' = nextRec + 1
  /\ lvl'[nextRec] = lastCall'.lvl
  /\ ppc'[lastCall'.p] = "enq"

\* C10: a log call below the minimum severity of that moment enqueues
\* nothing, changes no counter and writes to no sink; a call at or above it
\* goes on to enqueue; and once SetMinLevel(L) has returned, every later log
\* call is filtered against L.
C10_LevelFilter ==
  [][calls' = calls + 1 =>
       /\ IF lastCall'.lvl < minLevel
          THEN UNCHANGED <<loggerState, recVars, ppc, pcur, workVars>>
          ELSE LogTookEntry
       /\ cfgpc = "ret" => (LogTookEntry <=> lastCall'.lvl >= cfgArg)]_vars

\* C10 witness: after SetMinLevel raised the minimum, a WARN call was
\* filtered although an earlier call had passed.
C10_Witness ==
  /\ cfgpc = "ret"
  /\ lastCall.p # "none" /\ lastCall.lvl = WARN /\ ~lastCall.passed
  /\ nextRec > 1

\* s is an initial segment of t
IsPrefix(s, t) == Len(s) <= Len(t) /\ s = SubSeq(t, 1, Len(s))

\* C11: for every event dispatched in synchronous mode, the hooks invoked
\* are the hooks registered when the dispatch began, each once and in
\* registration order (SetHooks during the dispatch adds and removes none),
\* and no failure of a hook (error, timeout, panic) keeps the later hooks of
\* the list from being invoked.
C11_EachHookOnceInOrder ==
  \A e \in 1..evCount :
     /\ IsPrefix(calledOn[e], hooksAtBegin[e])
     /\ (dispatched[e] \/ crashed) => calledOn[e] = hooksAtBegin[e]

\* failures recorded, or being recorded, for invocation x with error err
RecordsOf(x, err) ==
  Cardinality({i \in 1..Len(hookErrHist) : hookErrHist[i] = Failure(x[1], x[2], err)})
  + Cardinality({R \in Runners : rpc[R] = "rec" /\ rerr[R] = Failure(x[1], x[2], err)})

\* C12: every panic of a hook is recovered, so the goroutine that called the
\* hook and the process keep running, and exactly one hook-panic failure is
\* recorded for it, with and without a per-hook timeout.
C12_PanicRecoveredAndRecorded ==
  /\ ~crashed
  /\ \A x \in panicked : RecordsOf(x, ErrHookPanic) = 1

\* worker w hands the entry at its batch position to enqueueHook while the
\* asynchronous hook queue is full
HookQueueFullAt(w) ==
  /\ wpc[w] = "flush"
  /\ writtenCount' = writtenCount + 1
  /\ hookAsync /\ hasHooks /\ hookCh = "open"
  /\ Len(hookQ) >= hookQueue

\* entries with a hook-queue-full failure on record
FullEvents ==
  {hookErrHist[i].ev : i \in {j \in 1..Len(hookErrHist) : hookErrHist[j].err = ErrHookQueueFull}}

\* C13: with asynchronous hooks, when the hook queue is full as the worker
\* hands over an event, the event is not queued and reaches no hook, the
\* failure counter and the failure log grow by exactly one hook-queue-full
\* record, the worker goes on (it does not wait for the queue), and the
\* record is written once to each sink of its route.
C13_QueueFullDropsOnlyTheHookEvent ==
  /\ [][\A w \in Workers : HookQueueFullAt(w) =>
          LET e == batch[w][bpos[w]]
          IN /\ hookQ' = hookQ /\ hookRuns' = hookRuns
             /\ hookErrCount' = hookErrCount + 1
             /\ hookErrHist' = Append(hookErrHist, Failure(e, NoHook, ErrHookQueueFull))
             /\ hookErrLog' = Append(hookErrLog, Failure(e, NoHook, ErrHookQueueFull))
             /\ wpc'[w] \in {"flush", "loop", "exit"}
             /\ handed'[e] = handed[e] + 1
             /\ \A s \in Sinks :
                   sinkLog'[s] = IF s \in ExpectedSinks(e) THEN Append(sinkLog[s], e)
                                 ELSE sinkLog[s]]_vars
  /\ [](\A e \in FullEvents :
          /\ hookRuns[e] = 0
          /\ \A i \in 1..Len(hookQ) : hookQ[i] # e
          /\ WrittenOnceToExpected(e))

\* C13 witness: a record met a full hook queue, was written to its sinks,
\* and the worker has finished its batch.
C13_Witness ==
  /\ FullEvents # {}
  /\ hookErrCount = 1
  /\ wpc["w1"] = "loop"
  /\ \E e \in FullEvents : WrittenOnceToExpected(e) /\ hookRuns[e] = 0

\* the runner's select of the current invocation has taken a case and the
\* runner acts on it
InvocationEnds(R) == rpc[R] \in {"sawTimeout", "sawDone"} /\ rpc'[R] # rpc[R]

\* exactly one failure, with error err, is recorded for R's invocation
RecordsOne(R, err) ==
  /\ hookErrCount' = hookErrCount + 1
  /\ rpc'[R] = "rec"
  /\ rerr'[R] = Failure(rev[R], CurHook(R), err)

\* failures recorded for invocation x, of any kind
FailuresOf(x) ==
  RecordsOf(x, ErrHook) + RecordsOf(x, ErrHookTimeout) + RecordsOf(x, ErrHookPanic)

Capacity == EffectiveMax(hookErrMax)

\* calls of recordHookError that have counted their failure and not yet
\* appended it
Recording == Cardinality({R \in Runners : rpc[R] = "rec"})

Min(a, b) == IF a <= b THEN a ELSE b

\* the last n elements of s
LastN(s, n) == SubSeq(s, Len(s) - n + 1, Len(s))

\* C15: the hook-error counter equals the number of failures recorded
\* (counting a recordHookError call still before its append), the ring is
\* never longer than its capacity and holds exactly the most recent
\* min(recorded, capacity) failures in the order they were recorded, and an
\* append to a ring at capacity keeps its length and drops only the oldest.
C15_RingHoldsMostRecent ==
  /\ [](/\ hookErrCount = Len(hookErrHist) + Recording
        /\ Len(hookErrLog) <= Capacity
        /\ hookErrLog = LastN(hookErrHist, Min(Len(hookErrHist), Capacity))
        /\ Recording = 0 => Len(hookErrLog) = Min(hookErrCount, Capacity))
  /\ [][(hookErrHist' # hookErrHist /\ Len(hookErrLog) = Capacity) =>
          /\ Len(hookErrLog') = Len(hookErrLog)
          /\ hookErrLog' = Append(Tail(hookErrLog), hookErrHist'[Len(hookErrHist')])]_vars

\* C15 witness: more failures than the ring holds have been recorded by the
\* two runners, and none is in flight.
C15_Witness ==
  /\ hookErrMax = MaxRing
  /\ Len(hookErrHist) > MaxRing
  /\ Recording = 0
  /\ \E i, j \in 1..Len(hookErrHist) : hookErrHist[i].ev # hookErrHist[j].ev

\* a SetHooks call that replaced the list or started a pool
SetHooksActed == hooks' # hooks \/ (hookCh' = "open" /\ hookCh # "open")

\* closeHookRunner has closed the hook queue and returned
HookRunnerClosed == hookCloseRuns >= 1 /\ waiterPc \in {"writers", "end"}

SafeWriteReturns == swpc \in {"try", "inc"} /\ swpc' = "begin"

\* C17: one safeWrite call, having read MaxRetries once at its start and
\* clamped it to at least 0, calls the sink's Write at most 1 + maxRetries
\* times, makes no call after a successful one, gives up only after exactly
\* 1 + maxRetries failed calls, and is not affected by SetRetryPolicy calls
\* made while it runs.
C17_AttemptsFromSnapshot ==
  /\ [](swCalls <= 1 + ClampMin0(swRead))
  /\ [][swCalls' = swCalls + 1 => ~swOk]_vars
  /\ [][SafeWriteReturns =>
          /\ swCalls' >= 1
          /\ swOk' \/ swCalls' = 1 + ClampMin0(swRead)]_vars

\* C17 witness: a call that read the largest MaxRetries has failed on all
\* its attempts and returned, the policy having been lowered meanwhile.
C17_Witness ==
  /\ swpc = "begin"
  /\ ~swOk
  /\ swRead = MaxRetry /\ swCalls = 1 + MaxRetry /\ retryMax = 0

RECURSIVE SumOver(_, _)
\* the sum of f over the set S
SumOver(f, S) ==
  IF S = {} THEN 0
  ELSE LET x == CHOOSE y \in S : TRUE IN f[x] + SumOver(f, S \ {x})

\* C18: every failure of a sink (a failed write attempt, a failed Close in
\* RemoveExtraWriter or SetRotation, a failed Close at shutdown) adds one to
\* that sink's counter and one to the global write-error counter, so the
\* per-sink counters never add up to more than the global counter.
C18_PerSinkWithinGlobal == SumOver(writerErrs, SinkNames) <= writeErrCount

\* C19: after any reconfigurations of the sink set followed by a Close that
\* returned success, every sink that was ever in the sink set has had its
\* Close invoked exactly once; and no sink's Close is ever invoked twice.
C19_EverySinkClosedOnce ==
  /\ \A s \in Sinks : sinkClosed[s] <= 1
  /\ cres["c1"] = "ok" => \A s \in installed : sinkClosed[s] = 1

\* how far the enqueue call of p has come
EnqRank(pc) ==
  CASE pc = "enq" -> 1 [] pc = "send" -> 2 [] pc = "evict" -> 3 [] pc = "retry" -> 4
    [] OTHER -> 5

\* C20: in non-blocking mode an enqueue call never waits for the worker or
\* the sinks: whenever a producer is inside enqueue its next step is enabled,
\* each of its steps takes it further through at most four positions, so the
\* call returns; and a call that returns has inserted its record or has
\* raised droppedCount, which never decreases.
C20_EnqueueNeverWaits ==
  /\ [](\A p \in Producers : ppc[p] # "idle" => ENABLED EnqueueStep(p))
  /\ [][\A p \in Producers :
          ppc'[p] # ppc[p] /\ ppc[p] # "idle" => EnqRank(ppc'[p]) > EnqRank(ppc[p])]_vars
  /\ [][/\ droppedCount' >= droppedCount
        /\ \A p \in Producers :
              (ppc[p] # "idle" /\ ppc'[p] = "idle") =>
                 \/ ins'[pcur[p]] = 1 /\ droppedCount' = droppedCount
                 \/ ins'[pcur[p]] = 0 /\ droppedCount' = droppedCount + 1]_vars
  /\ \A p \in Producers : (ppc[p] # "idle") ~> (ppc[p] = "idle")

\* C20 witness: with the worker having taken nothing, the queue is full and
\* both policies' outcomes have occurred: calls returned after dropping.
C20_Witness ==
  /\ Len(queue) = bufCap
  /\ batch["w1"] = <<>> /\ writtenCount = 0
  /\ droppedCount >= 2
  /\ \A p \in Producers : ppc[p] = "idle"

\* a is b with some of its elements left out
RECURSIVE IsSubseq(_, _)
IsSubseq(a, b) ==
  IF a = <<>> THEN TRUE
  ELSE IF b = <<>> THEN FALSE
  ELSE IF Head(a) = Head(b) THEN IsSubseq(Tail(a), Tail(b))
  ELSE IsSubseq(a, Tail(b))

\* C21: with a single worker, the sequence of records processBatch takes up,
\* and the sequence written to each sink, is a subsequence of the order in
\* which the records were sent on the ingestion queue, in every queue mode
\* and whichever branch (size, timer, final drain) flushed them.
C21_ProcessedInInsertionOrder ==
  /\ IsSubseq(procOrder, insOrder)
  /\ \A s \in Sinks : IsSubseq(sinkLog[s], procOrder)

\* C21 witness: three records were inserted, the second was evicted as the
\* oldest, and the first and the third were processed and written, the last
\* batch by the final drain of a shutdown.
C21_Witness ==
  /\ Len(insOrder) = 3
  /\ evicted[insOrder[2]] = 1
  /\ procOrder = <<insOrder[1], insOrder[3]>>
  /\ sinkLog[SinkRot] = procOrder
  /\ wret["w1"] = "final"
  /\ wpc["w1"] = "exit"

\* the flush of worker w returns and the worker goes on with its loop
FlushReturns(w) == wpc[w] = "flush" /\ wpc'[w] = "loop"

\* the flush of worker w began after the last SetBatchConfig call had returned
\* and no call was made since
AfterSetBatchConfig(w) == sbCalls >= 1 /\ sbpc = "idle" /\ flushConf[w] = sbCalls

\* C22: after SetBatchConfig(B', W') has returned, a worker decides its next
\* flush with batch size B', and when its next flush returns, size-triggered
\* or timer-triggered, its timer is re-armed with the published wait W'.
C22_NextFlushUsesPublishedBatchConfig ==
  [][\A w \in Workers :
       /\ (sbpc = "idle" /\ Len(batch'[w]) > Len(batch[w]))
            => (wpc'[w] = "flush" <=> Len(batch'[w]) >= ClampMin1(dynBatch[1]))
       /\ (FlushReturns(w) /\ AfterSetBatchConfig(w))
            => armed'[w] = ClampWait(dynBatch[2])]_vars

\* C30: between two iterations of a worker's loop its pending batch holds at
\* most as many records as the published batch size (clamped to at least 1),
\* also after SetBatchConfig lowered the size while the batch was partly filled.
C30_PendingBatchWithinPublishedSize ==
  \A w \in Workers : wpc[w] = "loop" => Len(batch[w]) <= ClampMin1(batchSizeA)

\* no ReinitGlobalLogger call is in progress and at least one has returned
ReinitsReturned ==
  /\ \A c \in Reiniters : gpc[c] = "idle"
  /\ \E c \in Reiniters : gcalls[c] >= 1

\* C23: once every ReinitGlobalLogger call made, concurrent ones included, has
\* returned, the global instance is a logger a reinit started, and every
\* other started logger has had its shutdown initiated.
C23_OnlyTheGlobalInstanceRuns ==
  ReinitsReturned =>
    /\ globalLogger \in started \ {FirstLogger}
    /\ \A x \in started : x # globalLogger => x \in closeBegun

\* the records passed to enqueue by calls that have returned
PassedToEnqueue == Cardinality(Returned)

\* the records that went past formatting to a sink write attempt
PastFormatting == Cardinality({r \in Recs : handed[r] >= 1})

\* C24: after shutdown has completed, written + dropped + formatter write
\* errors is at least the number of records passed to enqueue, and equal to
\* it when no sink write is retried, where written counts the records that
\* went past formatting to a sink write attempt.
C24_CountersAccountForEnqueued ==
  (ShutdownComplete /\ \A p \in Producers : ppc[p] = "idle") =>
    /\ writtenCount + droppedCount + fmtErrCount >= PassedToEnqueue
    /\ retryMax = 0 => writtenCount + droppedCount + fmtErrCount = PassedToEnqueue
    /\ writtenCount = PastFormatting

\* the worker took record r from the queue and is done with it
ProcessedByWorker(r) ==
  /\ ins[r] = 1
  /\ \A i \in 1..Len(queue) : queue[i] # r
  /\ \A w \in Workers : \A i \in bpos[w]..Len(batch[w]) : batch[w][i] # r

\* C25: on a logger created by InitLogger the worker does not crash, and an
\* INFO record it has processed was written once to the primary non-error
\* sink.
C25_DefaultLoggerProcessesRecords ==
  /\ \A w \in Workers : wpc[w] # "panic"
  /\ \A r \in Recs :
       (lvl[r] = INFO /\ ProcessedByWorker(r)) => Count(sinkLog[stdOut], r) = 1

\* C26: masking is idempotent: for every rule set, message and mode,
\* masking the masked message gives the masked message.
C26_MaskingIdempotent == mpc = "twice" => msgTwice = msgOnce


\* the step of producer p is one that claim C27 allows an enqueue call in
\* drop-oldest mode to take
EnqueueStepEvictsOnce(p) ==
  LET e == pcur[p] IN
  \* a call takes an entry from the queue only in its eviction step, and then
  \* it is the head, counted as dropped and recycled, and the insert is retried
  /\ (ppc[p] \in {"enq", "send", "evict", "retry"} /\ ppc'[p] # ppc[p]
        /\ Len(queue') < Len(queue))
       => /\ ppc[p] = "evict" /\ ppc'[p] = "retry"
          /\ queue' = Tail(queue)
          /\ droppedCount' = droppedCount + 1
          /\ recycled'[Head(queue)] = recycled[Head(queue)] + 1
          /\ callTook[e] = 0
  \* the eviction step on a full queue always takes the head
  /\ (ppc[p] = "evict" /\ ppc'[p] # "evict" /\ queue # <<>>) => queue' = Tail(queue)
  \* the retry is made once: it inserts the entry or drops it, and the call returns
  /\ (ppc[p] = "retry" /\ ppc'[p] # "retry")
       => /\ ppc'[p] = "idle"
          /\ \/ queue' = Append(queue, e) /\ droppedCount' = droppedCount
             \/ /\ Len(queue) = bufCap /\ queue' = queue
                /\ droppedCount' = droppedCount + 1
                /\ recycled'[e] = recycled[e] + 1
  \* no entry could be removed: the new entry is counted as dropped and recycled
  /\ (ppc[p] = "evict" /\ ppc'[p] # "evict" /\ queue = <<>>)
       => /\ ppc'[p] = "idle" /\ queue' = queue
          /\ droppedCount' = droppedCount + 1
          /\ recycled'[e] = recycled[e] + 1
  \* a returning call has raised droppedCount by at most 2, taken at most one
  \* entry, and left its entry in the queue or in the pool, never both
  /\ (ppc[p] \in {"send", "evict", "retry"} /\ ppc'[p] = "idle")
       => /\ callDrops'[e] <= 2
          /\ callTook'[e] <= 1
          /\ callDrops'[e] = callTook'[e] + selfDrop'[e]
          /\ ins'[e] + selfDrop'[e] = 1
          /\ (selfDrop'[e] = 1) = (recycled'[e] = recycled[e] + 1)

\* C27: in non-blocking drop-oldest mode one enqueue call on a full queue
\* removes at most one entry from the queue, the head, counts it as dropped and
\* recycles it, then retries the insert once; when the retry fails or no entry
\* could be removed the new entry is counted as dropped and recycled; so one
\* call raises droppedCount by at most 2 and every entry ends in the queue or
\* in the pool.  (Stated for steps taken while l.ch is open.)
C27_EvictOnceRetryOnce ==
  [][(nonBlocking /\ dropOldest /\ chClosed = 0)
       => \A p \in Producers : EnqueueStepEvictsOnce(p)]_vars

\* a call evicted the head, lost the freed slot to the other producer and
\* dropped its own entry: droppedCount rose by 2 during the one call
C27_Witness ==
  \E r \in Recs :
    /\ nonBlocking /\ dropOldest
    /\ encDone[r]
    /\ callTook[r] = 1
    /\ selfDrop[r] = 1
    /\ callDrops[r] = 2
    /\ droppedCount = 2
    /\ recycled[r] = 1
    /\ \E q \in Recs : evicted[q] = 1 /\ recycled[q] = 1

\* the entries counted as dropped so far, evicted as the oldest or dropped as new
DroppedRecs == {r \in Recs : evicted[r] + selfDrop[r] >= 1}

\* the position of entry r in the order in which enqueue disposed of the entries
EnqPos(r) == CHOOSE i \in 1..Len(enqOrder) : enqOrder[i] = r

\* C28: in non-blocking drop-oldest mode, in every reachable state where at
\* least one entry has been dropped and at least one entry is retained in the
\* queue, the oldest dropped entry was enqueued before the newest retained
\* entry.  (Checked in every state, the overloaded ones included, with the
\* order taken at the point where enqueue sent the entry or gave it up.)
C28_OldestDroppedBeforeNewestRetained ==
  (nonBlocking /\ dropOldest /\ DroppedRecs # {} /\ queue # <<>>)
    => /\ \A r \in DroppedRecs : \E i \in 1..Len(enqOrder) : enqOrder[i] = r
       /\ \E r \in DroppedRecs : EnqPos(r) < EnqPos(queue[Len(queue)])

\* sustained overload: the queue is full, the worker has taken nothing, the
\* first entry was evicted and the two younger ones are retained
C28_Witness ==
  /\ nonBlocking /\ dropOldest
  /\ bufCap = MaxBuf
  /\ Len(queue) = bufCap
  /\ procOrder = <<>>
  /\ \A w \in Workers : batch[w] = <<>>
  /\ evicted[enqOrder[1]] = 1
  /\ DroppedRecs = {enqOrder[1]}
  /\ queue[Len(queue)] = enqOrder[Len(enqOrder)]
  /\ Len(enqOrder) = bufCap + 1

\* a worker is inside processBatch, where it sends on the hook queue
WorkerMaySend == \E w \in Workers : wpc[w] = "flush"

\* the step is the close(l.hookQueueCh) of shutdown
ShutdownClosesHookQueue == hookCloseRuns' > hookCloseRuns

\* the step is the closeAllWriters of shutdown
ShutdownClosesSinks == writersCloseRuns' > writersCloseRuns

Accepted == SumOver(ins, Recs)

\* ceil(n / b) for b >= 1
CeilDiv(n, b) == (n + b - 1) \div b

\* C31: with one worker, batch size B, N records accepted into the queue and
\* no timer expiry before shutdown, batchCount after Close has returned equals
\* ceil(N/B); a flush of an empty batch is never counted.
C31_BurstsAreCeilOfRecordsOverSize ==
  /\ [](cvia["c1"] = "done"
          => batchCount = CeilDiv(Accepted, ClampMin1(batchSizeA)))
  /\ [][batchCount' # batchCount
          => \E w \in Workers : batch[w] # <<>> /\ batchCount' = batchCount + 1]_vars

\* three records in batches of two: one full flush and the final flush of
\* the remaining record
C31_Witness ==
  /\ cvia["c1"] = "done"
  /\ Accepted = 3
  /\ ClampMin1(batchSizeA) = 2
  /\ batchCount = 2
  /\ wret["w1"] = "final"

\* worker w is inside a flush with an entry left to process
InFlush(w) == wpc[w] = "flush" /\ bpos[w] <= Len(batch[w])

\* C32: after a size-triggered flush the worker stops its timer and drains a
\* pending signal before re-arming it, so timer.C never holds a signal of an
\* expiry older than the last re-arm and no timer-triggered flush is caused
\* by one; and the worker never waits while draining: the step that ends the
\* flush can always be taken.
C32_NoSpuriousTimerFlush ==
  /\ [](\A w \in Workers : timer[w].sig # "stale")
  /\ [][\A w \in Workers :
          /\ (wpc[w] = "loop" /\ wpc'[w] = "flush" /\ wret'[w] = "timer")
               => timer[w].sig = "fresh"
          /\ (InFlush(w) /\ wret[w] = "size" /\ wpc'[w] = "loop")
               => timer'[w].run /\ timer'[w].sig = "none"]_vars
  /\ [](\A w \in Workers : InFlush(w) => ENABLED WorkerProcess(w))

\* the timer expired during a size-triggered flush and its signal was
\* drained before the re-arm
C32_Witness ==
  /\ timer["w1"].drained >= 1
  /\ timer["w1"].run
  /\ timer["w1"].sig = "none"
  /\ wret["w1"] = "size"
  /\ wpc["w1"] = "loop"

\* the step is worker w meeting a formatter failure on the entry it is at
FormatFails(w) == InFlush(w) /\ fmtErrCount' = fmtErrCount + 1

\* the entries processBatch took up that went on to writeToAll, in order
WrittenInOrder == SelectSeq(procOrder, LAMBDA r : handed[r] >= 1)

\* C33: when the formatter fails for a record, the record is written to no
\* sink, the global write-error counter rises by exactly one, the record is
\* returned to the pool, and the remaining records of the batch are still
\* processed in order.
C33_FormatFailureSkipsOnlyTheRecord ==
  /\ [][\A w \in Workers : FormatFails(w) =>
          LET e == batch[w][bpos[w]] IN
          /\ sinkLog' = sinkLog
          /\ handed' = handed
          /\ writeErrCount' = writeErrCount + 1
          /\ recycled'[e] = recycled[e] + 1
          /\ IF bpos[w] < Len(batch[w])
             THEN wpc'[w] = "flush" /\ batch'[w] = batch[w] /\ bpos'[w] = bpos[w] + 1
             ELSE wpc'[w] \in {"loop", "exit"}]_vars
  /\ [](/\ IsSubseq(procOrder, insOrder)
        /\ sinkLog[SinkRot] = WrittenInOrder
        /\ \A r \in Recs : handed[r] = 0 => \A s \in Sinks : Count(sinkLog[s], r) = 0)

\* the first record of a batch of two failed to format and the second one
\* was written
C33_Witness ==
  /\ procOrder = <<1, 2>>
  /\ handed[1] = 0 /\ recycled[1] = 1
  /\ handed[2] = 1
  /\ sinkLog[SinkRot] = <<2>>
  /\ writeErrCount = 1
  /\ batchCount = 1

\* safeWrite gives up on the writer it is at: its last attempt has failed
SafeWriteGivesUp == swpc = "inc" /\ swpc' = "begin"

\* C34: when a sink's write fails on every attempt, the worker still writes
\* the same record to the remaining sinks of its snapshot and then goes on to
\* the following records; a sink failure never ends the worker and shows only
\* in the error counters.
C34_SinkFailureIsContained ==
  /\ [][SafeWriteGivesUp =>
          /\ swCalls = 1 + swMax /\ ~swOk
          /\ swTargets' = Tail(swTargets)
          /\ swNames' = Tail(swNames)
          /\ wpc' = wpc]_vars
  /\ [][(swpc = "try" /\ swpc' = "inc") =>
          /\ writeErrCount' = writeErrCount + 1
          /\ UNCHANGED <<outVars, workVars, swTargets, swNames>>]_vars
  /\ [][(Len(swTargets') < Len(swTargets)) => swCalls' >= 1]_vars
  /\ [](\A w \in Workers :
          /\ wpc[w] \in {"off", "loop", "write"}
          /\ (wpc[w] = "write" /\ swpc = "begin") => ENABLED SafeWriteBegin(w)
          /\ (wpc[w] = "write" /\ swpc = "try") => ENABLED SafeWriteTry(w, TRUE)
          /\ (wpc[w] = "loop" /\ swpc = "idle" /\ wcalls < MaxRec)
               => ENABLED WriteToAllBegin(w, FALSE, MaxRec))

\* the primary failed on every attempt of the first record, the rotation and
\* extra sinks were then written, and the worker is writing the next record
C34_Witness ==
  /\ wcalls = 2
  /\ retryMax = MaxRetry
  /\ writerErrs[StdoutName] = 1 + MaxRetry
  /\ writeErrCount = 1 + MaxRetry
  /\ wpc["w1"] = "write"
  /\ swTargets = <<SinkExtra>>
  /\ swOk

\* C35: the failures reported concurrently for one sink name raise its
\* counter by exactly their number, the calls that raced to create the
\* counter included: the counter of a name equals the number of calls of
\* incWriterErr for it that returned, and no step lowers a counter.
C35_NoLostCount ==
  /\ [](\A n \in SinkNames : writerErrs[n] = errCalls.done[n])
  /\ [][\A n \in SinkNames : writerErrs'[n] >= writerErrs[n]]_vars

\* three goroutines failed on the same name at once, one of them found the
\* counter created under it, and all three are counted
C35_Witness ==
  /\ errCalls.raced >= 1
  /\ \A g \in Incrementers : errCalls.pc[g] = "idle" /\ errCalls.calls[g] = 1
  /\ errCalls.done[StdoutName] = 3
  /\ writerErrs[StdoutName] = 3

\* the log calls that hold entry r between the pool and the queue
InHand(r) == Cardinality({p \in Producers : pcur[p] = r})

\* the slots of the workers' batches that hold r and are still to be processed
Pending(r) ==
  Cardinality({<<w, i>> \in Workers \X (1..MaxBatch) :
                 i \in DOMAIN batch[w] /\ i >= bpos[w] /\ batch[w][i] = r})

\* the slots of the workers' batches that hold r, processed or not
InBatch(r) == SumOver([w \in Workers |-> Count(batch[w], r)], Workers)

\* the entries the log calls have taken from the pool
Taken == 1..(nextRec - 1)

C37_NoWriteAfterSinkClose ==
  [][swCalls' = swCalls + 1 => sinkClosed[Head(swTargets)] = 0]_vars

\* C38: for every processed record the structured-mode flag used for the
\* masking and carried by the hook event agrees with the formatter that
\* formats the record: the flag is set exactly when the formatter is the
\* JSON formatter, whatever SetJSONFormat does meanwhile.
C38_ModeAgreesWithFormatter ==
  fmtCalls.done >= 1 => (fmtCalls.used[1] <=> fmtCalls.used[2] = "JSONFormatter")

\* a step that records a hook-queue-full failure
RecordsQueueFull ==
  /\ Len(hookErrHist') = Len(hookErrHist) + 1
  /\ hookErrHist'[Len(hookErrHist')].err = ErrHookQueueFull

\* C39: in asynchronous hook mode on an open logger, whenever the published
\* hook list is not empty (after SetHooks or ResetDynamicConfig, a logger
\* started without hooks included) a hook queue and its runners exist, so a
\* hook-queue-full failure is recorded only when the queue is really full.
C39_HookQueueExistsWhilePublished ==
  /\ [](hookAsync /\ ~closed /\ hooks # <<>> => hookCh = "open" /\ hookAlive >= 1)
  /\ [][RecordsQueueFull => hookCh = "open" /\ Len(hookQ) = hookQueue]_vars

\* C40: with the worker and its timer scheduled fairly and sinks that
\* return, every record inserted into the queue and not evicted from it is
\* eventually handed to the writer stage, even if no further record arrives
\* and Close is never called: the timer flushes a partial batch.
C40_InsertedEventuallyWritten ==
  \A r \in Recs : (ins[r] >= 1) ~> (handed[r] >= 1 \/ evicted[r] >= 1)

\* the only record logged sat alone in a batch of size MaxBatch and was handed
\* to the writer stage by a timer flush, the logger still open
C40_Witness ==
  /\ ~closed /\ calls = 1 /\ ins[1] = 1
  /\ ClampMin1(batchSizeA) = MaxBatch
  /\ wret["w1"] = "timer" /\ wpc["w1"] = "loop"
  /\ handed[1] = 1 /\ batchCount = 1
  /\ timer["w1"].run

====
